---------------------------- MODULE Spec2Model ----------------------------
(***************************************************************************)
(* A model of the per-user trade-exit engine: src/src/rules/engine.py      *)
(* (TradingEngine, ActiveTrade), src/src/monitor.py (PositionMonitor),     *)
(* src/src/rules/schema.py (ExitRule) and src/main.py (on_exit_trigger).   *)
(*                                                                         *)
(* Conventions.  An Optional value is a sequence: << >> is None and <<x>>  *)
(* is the value x.  Prices are integers (exact arithmetic; the rounding of *)
(* Python floats is not modelled).  A "HH:MM" string is the tuple of its   *)
(* four digits, compared lexicographically as Python compares strings.     *)
(***************************************************************************)
EXTENDS Integers, Sequences, FiniteSets, TLC

VARIABLES
    running,        \* TradingEngine._running
    startPc,        \* position of a start() call: "idle" | "loading"
    stopPc,         \* position of a stop() call: "idle" | "draining"
    tickerConfigured, \* TradingEngine.ticker_client is not None
    tickerCanConnect, \* the ticker has credentials (connect() does not raise)
    tickerConnected,  \* TradingEngine._ticker_connected
    wsUp,           \* the websocket is open and delivering ticks
    subscribed,     \* KiteTickerClient.subscribed_tokens (the tokens)
    monitorRunning, \* PositionMonitor._running (the poll task is alive)
    positions,      \* PositionMonitor._positions: key -> Optional position
    rules,          \* TradingEngine._rules
    rulesTask,      \* the _rules_refresh_loop task is alive
    trades,         \* the ActiveTrade objects created so far (a heap), by id; an object
                    \* nothing refers to any more is kept as Dropped(object)
    activeTrades,   \* TradingEngine._active_trades: key -> trade id, 0 = no entry
    prices,         \* TradingEngine._prices: token -> Optional price
    plPc,           \* _price_loop task: "none" | "sleep" | "exec"
    plRest,         \* _price_loop: trades of the iteration's snapshot still to evaluate
    plCur,          \* _price_loop: <<trade id, trigger>> whose on_trigger is in flight
    clock,          \* datetime.now(): an index into Instants
    orders,         \* orders accepted by the broker's place_order, in order
    execCount,      \* history: trade id -> times on_trigger was invoked for it
    flatRows,       \* history: rows with quantity 0 the monitor has processed for a key it did not track
    flatNew,        \* history: on_new_position calls that carried a quantity of 0
    reEvals,        \* history: _evaluate_trade calls on a trade that had already triggered
    lastEval,       \* history: the last _evaluate_trade call of the one-trade specification:
                    \* when, whether the trade had triggered before, the value returned
    pollLog,        \* history, kept by the monitor specification only: the callbacks
                    \* _poll_positions has delivered (see InitObs)
    taskCount,      \* history: the tasks created by start() and not yet cancelled or
                    \* ended: [poll, price, refresh]
    apiEngines,     \* api/routers/trading.py _user_engines[user_id]: "absent", or
                    \* "running"/"stopped" for its "running" entry
    callLog,        \* history, kept by the lifecycle specification only: the last
                    \* repeated call of start()/stop(); the status of the last API
                    \* call, the API call last accepted and the one last refused
    ruleTable,      \* the user's rows of the table trading_rules (TradingRule), kept by
                    \* the rule selection specification only
    matchLog,       \* history, kept by the pattern specification only: the pattern of
                    \* the one rule, the symbol of the position, and what
                    \* _find_matching_rule did ("none" before the call)
    exitLog,        \* history, kept by the exit specification only: the last exit
                    \* that was executed: by on_exit_trigger ("engine") or by
                    \* execute_exit ("service"), its trigger type, the broker's answer,
                    \* the calls of the broker's place_order, the events published
    orderBook,      \* kept by the exit specification only: the broker's orders of the
                    \* day (order id = index) and the PositionMonitor's order state:
                    \* _completed_order_ids, the orders skipped as system-generated,
                    \* the orders passed to on_order_complete, in order, and whether
                    \* the monitor was given an on_order_complete callback
    pollHealth,     \* history, kept by the failing-poll specification only: how the
                    \* last turn of _poll_positions ended ("ok", or the broker call
                    \* raised for "auth" or "network", or a row raised in "parse"),
                    \* the failed turns in a row, the auth failures in a row, the
                    \* callbacks of the last turn, the events the monitor published
    brokerAccount,  \* the user's row of broker_accounts for the broker, or None;
                    \* kept by the factory specification only, as the next two
    factory,        \* BrokerClientFactory: _clients[key] and _accounts[key] of the
                    \* user's cache key, each None when the key is not in the dict
    issued,         \* history: what the last get_client returned and whether it came
                    \* from the cache
    bus,            \* EventBus: _global_handlers, _handlers, _user_handlers, and
                    \* (history) the last publish since the handlers last changed;
                    \* kept by the event bus specification only
    sessionMgr,     \* SessionManager: per user _sessions[user] and _contexts[user]
                    \* (None when the key is absent) and the end_session call that
                    \* is suspended in context.cleanup(); the sessions created so far,
                    \* and (history) what the last end_session to finish set out to
                    \* end and what it removed; kept by the session specification only
    limiter,        \* RateLimiter and its Redis keys: per user the counter under
                    \* key_prefix + user_id (0 when the key is absent) and whether
                    \* the key has a time to live; the last call of the limiter
    inflight,       \* the get_client calls suspended at an await; kept by the
                    \* factory race specification only
    tickerClient    \* the KiteTickerClient in detail, kept by the ticker specification
                    \* only: subscribed_tokens (token -> mode), _is_connected,
                    \* _is_first_connect, what the server streams on the connection
                    \* (token -> mode) and what it streamed when the socket last closed

lifeVars == << running, startPc, stopPc >>
tickerVars == << tickerConfigured, tickerCanConnect, tickerConnected, wsUp, subscribed >>
monitorVars == << monitorRunning, positions >>
rulesVars == << rules, rulesTask >>
tradeVars == << trades, activeTrades, execCount >>
loopVars == << plPc, plRest, plCur >>
histVars == << orders, flatRows, flatNew, reEvals, lastEval >>
callVars == << apiEngines, callLog >>
\* the stores and services around the engine
exitVars == << exitLog, orderBook >>
factoryVars == << brokerAccount, factory, issued >>
appVars == << bus, sessionMgr, limiter, inflight >>
svcVars == << ruleTable, matchLog, exitVars, pollHealth, factoryVars, appVars >>
obsVars == << pollLog, callVars, tickerClient, svcVars >>

vars == << lifeVars, tickerVars, monitorVars, rulesVars, tradeVars, prices, loopVars,
           clock, histVars, obsVars, taskCount >>

Some(x) == << x >>
None == << >>

-----------------------------------------------------------------------------
(* Bounds of the model *)

\* ActiveTrade objects created in one behaviour
MaxTrades == 2

\* instants of Instants the clock of the engine specification passes through
MaxClock == 2

\* the history counters flatRows, flatNew and reEvals stop counting here
MaxCount == 1

-----------------------------------------------------------------------------
(* Time: datetime.now() and the HH:MM strings *)

\* The instants the clock passes through, in order: weekday (0 = Monday) and
\* minute of the day.
Instants == << [weekday |-> 4, minute |-> 919],    \* Fri 15:19
               [weekday |-> 4, minute |-> 920],    \* Fri 15:20
               [weekday |-> 5, minute |-> 600],    \* Sat 10:00
               [weekday |-> 0, minute |-> 554],    \* Mon 09:14
               [weekday |-> 0, minute |-> 600] >>  \* Mon 10:00

\* now.strftime("%H:%M")
Strftime(minute) ==
    << (minute \div 60) \div 10, (minute \div 60) % 10,
       (minute % 60) \div 10, (minute % 60) % 10 >>

RECURSIVE StrLessFrom(_, _, _)
StrLessFrom(a, b, i) ==
    IF i > Len(a) THEN i <= Len(b)
    ELSE IF i > Len(b) THEN FALSE
    ELSE IF a[i] < b[i] THEN TRUE
    ELSE IF a[i] > b[i] THEN FALSE
    ELSE StrLessFrom(a, b, i + 1)

\* Python's a < b on strings
StrLess(a, b) == StrLessFrom(a, b, 1)

\* Python's a >= b on strings
StrGeq(a, b) == ~StrLess(a, b)

T0915 == << 0, 9, 1, 5 >>
T1515 == << 1, 5, 1, 5 >>
T1520 == << 1, 5, 2, 0 >>
T1530 == << 1, 5, 3, 0 >>
Weekdays == {0, 1, 2, 3, 4}

\* TimeCondition() with the defaults of the class
DefaultTimeCondition ==
    [start_time |-> T0915, end_time |-> T1515,
     square_off_time |-> Some(T1520), active_days |-> Weekdays]

-----------------------------------------------------------------------------
(* ExitRule: the condition arithmetic of src/src/rules/schema.py *)

\* ExitRule.calc_tp; percentages are exact on the entry prices of the model
calc_tp(rule, entry, ptype) ==
    IF rule.take_profit = None \/ ~rule.take_profit[1].enabled THEN None
    ELSE LET tp == rule.take_profit[1] IN
         CASE tp.condition_type = "absolute" -> Some(tp.target)
           [] tp.condition_type = "relative" ->
                Some(IF ptype = "LONG" THEN entry + tp.target
                                               ELSE entry - tp.target)
           [] tp.condition_type = "percentage" ->
                Some(IF ptype = "LONG"
                       THEN (entry * (100 + tp.target)) \div 100
                       ELSE (entry * (100 - tp.target)) \div 100)
           [] OTHER -> None

\* ExitRule.calc_sl
calc_sl(rule, entry, ptype) ==
    IF rule.stop_loss = None \/ ~rule.stop_loss[1].enabled THEN None
    ELSE LET sl == rule.stop_loss[1] IN
         CASE sl.condition_type = "absolute" -> Some(sl.stop)
           [] sl.condition_type = "relative" ->
                Some(IF ptype = "LONG" THEN entry - sl.stop
                                               ELSE entry + sl.stop)
           [] sl.condition_type = "percentage" ->
                Some(IF ptype = "LONG"
                       THEN (entry * (100 - sl.stop)) \div 100
                       ELSE (entry * (100 + sl.stop)) \div 100)
           [] OTHER -> None

\* a check_tp that misses the boundary price
check_tp_strict(rule, price, entry, pos_type) ==
    LET tp == calc_tp(rule, entry, pos_type) IN
    IF tp = None THEN FALSE
    ELSE IF pos_type = "LONG" THEN price > tp[1] ELSE price < tp[1]

\* ExitRule.check_tp
check_tp(rule, price, entry, pos_type) ==
    LET tp == calc_tp(rule, entry, pos_type) IN
    IF tp = None THEN FALSE
    ELSE IF pos_type = "LONG" THEN price >= tp[1] ELSE price <= tp[1]

\* ExitRule.check_sl
check_sl(rule, price, entry, pos_type) ==
    LET sl == calc_sl(rule, entry, pos_type) IN
    IF sl = None THEN FALSE
    ELSE IF pos_type = "LONG" THEN price <= sl[1] ELSE price >= sl[1]

-----------------------------------------------------------------------------
(* TrackedPosition: src/src/monitor.py *)

\* TrackedPosition.position_type
position_type(pos) ==
    IF pos.quantity > 0 THEN "LONG"
    ELSE IF pos.quantity < 0 THEN "SHORT"
    ELSE "FLAT"

\* TrackedPosition.entry_price
entry_price(pos) ==
    IF pos.quantity > 0 THEN pos.buy_price
    ELSE IF pos.quantity < 0 THEN pos.sell_price
    ELSE pos.average_price

\* TrackedPosition.abs_quantity
abs_quantity(pos) == IF pos.quantity < 0 THEN 0 - pos.quantity ELSE pos.quantity

\* TrackedPosition.symbol_key
symbol_key(pos) == << pos.exchange, pos.trading_symbol >>

-----------------------------------------------------------------------------
(* ActiveTrade and the trigger evaluation: src/src/rules/engine.py *)

\* ActiveTrade(...) as _on_new_position builds it
NewTrade(pos, rule) ==
    [position |-> pos,
     rule |-> rule,
     tp_price |-> calc_tp(rule, entry_price(pos), position_type(pos)),
     sl_price |-> calc_sl(rule, entry_price(pos), position_type(pos)),
     current_price |-> pos.last_price,
     highest_price |-> pos.last_price,
     lowest_price |-> pos.last_price,
     triggered |-> FALSE,
     trigger_type |-> None,
     triggered_at |-> None]

\* an update that keeps no high watermark
update_price_last_as_high(trade, price) ==
    [trade EXCEPT
        !.current_price = price,
        !.highest_price = price,
        !.lowest_price = IF @ = 0 \/ price < @ THEN price ELSE @]

\* ActiveTrade.update_price
update_price(trade, price) ==
    [trade EXCEPT
        !.current_price = price,
        !.highest_price = IF price > @ THEN price ELSE @,
        !.lowest_price = IF @ = 0 \/ price < @ THEN price ELSE @]

\* TradingEngine._is_within_time; _config is never set, so a rule without
\* time conditions has no window
is_within_time(tc, now) ==
    IF tc = None THEN TRUE
    ELSE LET current == Strftime(now.minute) IN
         IF now.weekday \notin tc[1].active_days THEN FALSE
         ELSE IF StrLess(current, tc[1].start_time) THEN FALSE
         ELSE IF StrLess(tc[1].end_time, current) THEN FALSE
         ELSE TRUE

\* TradingEngine._should_square_off
should_square_off(tc, now) ==
    IF tc = None THEN FALSE
    ELSE IF tc[1].square_off_time = None THEN FALSE
    ELSE StrGeq(Strftime(now.minute), tc[1].square_off_time[1])

\* Python's truth value of an Optional[float]
Truthy(opt) == opt # None /\ opt[1] # 0

\* the trailing take-profit branch of _evaluate_trade (lines 415-426)
TrailingTpFires(trade, price) ==
    LET tp == trade.rule.take_profit[1]
        trail_step == IF tp.trail_step = None THEN 0 ELSE tp.trail_step[1]
        ptype == position_type(trade.position)
    IN  IF Truthy(trade.tp_price) /\ ptype = "LONG"
          THEN trade.highest_price >= trade.tp_price[1]
               /\ price <= trade.highest_price - trail_step
        ELSE IF Truthy(trade.tp_price) /\ ptype = "SHORT"
          THEN trade.lowest_price <= trade.tp_price[1]
               /\ price >= trade.lowest_price + trail_step
        ELSE FALSE

\* the trailing stop-loss branch of _evaluate_trade (lines 429-437)
TrailingSlFires(trade, price) ==
    LET sl == trade.rule.stop_loss[1] IN
    IF position_type(trade.position) = "LONG"
      THEN price <= trade.highest_price - sl.stop
      ELSE price >= trade.lowest_price + sl.stop

\* a _evaluate_trade that tests the stop-loss before the take-profit
Decide_sl_first(trade, price, now) ==
    LET rule == trade.rule
        pos == trade.position
        tpTrail == rule.take_profit # None /\ rule.take_profit[1].trail
                   /\ rule.take_profit[1].enabled
        slTrail == rule.stop_loss # None /\ rule.stop_loss[1].trail
                   /\ rule.stop_loss[1].enabled
    IN  IF ~is_within_time(rule.time_conditions, now) THEN None
        ELSE IF should_square_off(rule.time_conditions, now) THEN Some("SQUARE_OFF")
        ELSE IF slTrail /\ TrailingSlFires(trade, price) THEN Some("SL")
        ELSE IF ~slTrail /\ check_sl(rule, price, entry_price(pos), position_type(pos))
          THEN Some("SL")
        ELSE IF tpTrail /\ TrailingTpFires(trade, price) THEN Some("TP")
        ELSE IF ~tpTrail /\ check_tp(rule, price, entry_price(pos), position_type(pos))
          THEN Some("TP")
        ELSE None

\* the checks of _evaluate_trade after update_price (lines 409-441): the
\* trigger, or None
Decide(trade, price, now) ==
    LET rule == trade.rule
        pos == trade.position
        tpTrail == rule.take_profit # None /\ rule.take_profit[1].trail
                   /\ rule.take_profit[1].enabled
        slTrail == rule.stop_loss # None /\ rule.stop_loss[1].trail
                   /\ rule.stop_loss[1].enabled
    IN  IF ~is_within_time(rule.time_conditions, now) THEN None
        ELSE IF should_square_off(rule.time_conditions, now) THEN Some("SQUARE_OFF")
        ELSE IF tpTrail /\ TrailingTpFires(trade, price) THEN Some("TP")
        ELSE IF ~tpTrail /\ check_tp(rule, price, entry_price(pos), position_type(pos))
          THEN Some("TP")
        ELSE IF slTrail /\ TrailingSlFires(trade, price) THEN Some("SL")
        ELSE IF ~slTrail /\ check_sl(rule, price, entry_price(pos), position_type(pos))
          THEN Some("SL")
        ELSE None

\* a _evaluate_trade without the guard on trade.triggered
evaluate_trade_unguarded(trade, cache, now) ==
    LET token == trade.position.instrument_token
        price == IF cache[token] # None THEN cache[token][1] ELSE trade.current_price
        updated == update_price(trade, price)
    IN  [trade |-> updated, result |-> Decide(updated, price, now)]

\* TradingEngine._evaluate_trade: the trade after the call and the value returned
evaluate_trade(trade, cache, now) ==
    IF trade.triggered THEN [trade |-> trade, result |-> None]
    ELSE evaluate_trade_unguarded(trade, cache, now)

\* a _trigger_exit that forgets to mark the trade
trigger_exit_unmarked(trade, trigger_type, now) == trade

\* TradingEngine._trigger_exit, up to the call of on_trigger
trigger_exit(trade, trigger_type, now) ==
    [trade EXCEPT !.triggered = TRUE,
                  !.trigger_type = Some(trigger_type),
                  !.triggered_at = Some(now)]

\* an on_exit_trigger that always sells
exit_order_always_sell(trade, trigger_type) ==
    [variety |-> "regular",
     exchange |-> trade.position.exchange,
     tradingsymbol |-> trade.position.trading_symbol,
     transaction_type |-> "SELL",
     quantity |-> abs_quantity(trade.position),
     product |-> trade.position.product,
     order_type |-> "MARKET",
     tag |-> << trigger_type, trade.rule.rule_id >>]

\* on_exit_trigger (src/main.py): the arguments of kite_client.place_order.
\* The tag "{trigger_type}_{rule_id[:8]}" is kept as the pair of its parts.
exit_order(trade, trigger_type) ==
    LET pos == trade.position
        rule == trade.rule
    IN  [variety |-> "regular",
         exchange |-> pos.exchange,
         tradingsymbol |-> pos.trading_symbol,
         transaction_type |-> IF position_type(pos) = "LONG" THEN "SELL" ELSE "BUY",
         quantity |-> abs_quantity(pos),
         product |-> pos.product,
         order_type |->
            IF trigger_type = "TP" /\ rule.take_profit # None
              THEN rule.take_profit[1].order_type
            ELSE IF trigger_type = "SL" /\ rule.stop_loss # None
              THEN rule.stop_loss[1].order_type
            ELSE "MARKET",
         tag |-> << trigger_type, rule.rule_id >>]

-----------------------------------------------------------------------------
(* The instruments, the broker's position rows and the rules in the database *)

SX == << "S", "X" >>
NF == << "N", "F" >>

\* the instruments the account trades, in the order of the broker's response
InstrumentSeq ==
    << [exchange |-> "BFO", tradingsymbol |-> SX, instrument_token |-> 1, product |-> "NRML"],
       [exchange |-> "NFO", tradingsymbol |-> NF, instrument_token |-> 2, product |-> "MIS"] >>

Instruments == { InstrumentSeq[i] : i \in 1..Len(InstrumentSeq) }
Keys == { << i.exchange, i.tradingsymbol >> : i \in Instruments }
Tokens == { i.instrument_token : i \in Instruments }

\* what the broker reports for each instrument of InstrumentSeq: the quantities
\* of its row of positions(), and the prices of its ticks and of ltp()
Feed ==
    << [quantities |-> {-1, 0, 2}, prices |-> {3, 4}],
       [quantities |-> {0, 2}, prices |-> {3}] >>
RowEntryPrices == {3}
RowLastPrices == {3}

\* the rows kite_client.positions()["net"] may hold for instrument n
RowsOf(n) ==
    { [instrument_token |-> InstrumentSeq[n].instrument_token,
       tradingsymbol |-> InstrumentSeq[n].tradingsymbol,
       exchange |-> InstrumentSeq[n].exchange, product |-> InstrumentSeq[n].product,
       quantity |-> q, average_price |-> e, last_price |-> lp,
       buy_price |-> e, sell_price |-> e]
      : q \in Feed[n].quantities, lp \in RowLastPrices, e \in RowEntryPrices }

Rows == UNION { RowsOf(n) : n \in 1..Len(InstrumentSeq) }

\* a response of positions(): per instrument, no row or one row
Responses ==
    { r \in [1..Len(InstrumentSeq) -> {None} \cup { Some(row) : row \in Rows }] :
        \A n \in 1..Len(InstrumentSeq) : r[n] # None => r[n][1] \in RowsOf(n) }

\* PositionMonitor._parse_position (first_seen, last_updated, pnl, the buy/sell
\* quantities and the multiplier are not read by the engine and left out)
parse_position(pos_data) ==
    [instrument_token |-> pos_data.instrument_token,
     trading_symbol |-> pos_data.tradingsymbol,
     exchange |-> pos_data.exchange,
     product |-> pos_data.product,
     quantity |-> pos_data.quantity,
     average_price |-> pos_data.average_price,
     last_price |-> pos_data.last_price,
     buy_price |-> pos_data.buy_price,
     sell_price |-> pos_data.sell_price]

RelTp1 == [enabled |-> TRUE, condition_type |-> "relative", target |-> 1,
           trail |-> FALSE, trail_step |-> None]
RelSl1 == [enabled |-> TRUE, condition_type |-> "relative", stop |-> 1,
           trail |-> FALSE, trail_step |-> None]
DbWindow == [start_time |-> Some(T0915), end_time |-> Some(T1530),
             square_off_time |-> Some(T1520), active_days |-> Weekdays]

\* rule dicts as the rules repository returns them
DbRuleS == [id |-> "rS", is_active |-> TRUE, symbol_pattern |-> Some(<< "S", "*" >>),
            exchange |-> Some("BFO"), position_type |-> None,
            take_profit |-> Some(RelTp1), stop_loss |-> Some(RelSl1),
            time_conditions |-> Some(DbWindow)]
DbRuleN == [id |-> "rN", is_active |-> TRUE, symbol_pattern |-> Some(<< "N", "*" >>),
            exchange |-> Some("NFO"), position_type |-> Some("LONG"),
            take_profit |-> None, stop_loss |-> Some(RelSl1),
            time_conditions |-> None]
\* the rule sets get_rules may return (the "rules" list of rules_data)
DbConfigs == { << DbRuleS, DbRuleN >> }

\* TradingEngine._db_rule_to_exit_rule.  The dict's keys are all present, so
\* the defaults of .get() do not show.  order_type is not passed on: the
\* conditions keep the class default, MARKET.
db_rule_to_exit_rule(db_rule) ==
    LET tp_data == db_rule.take_profit
        sl_data == db_rule.stop_loss
        tc_data == db_rule.time_conditions
    IN  [rule_id |-> db_rule.id,
         symbol_pattern |-> IF db_rule.symbol_pattern = None
                                 \/ db_rule.symbol_pattern[1] = << >>
                              THEN << "*" >>
                            ELSE db_rule.symbol_pattern[1],
         exchange |-> db_rule.exchange,
         apply_to |-> IF db_rule.position_type = None THEN "ALL"
                      ELSE db_rule.position_type[1],
         take_profit |->
            IF tp_data # None /\ tp_data[1].enabled
              THEN Some([enabled |-> tp_data[1].enabled,
                         condition_type |-> tp_data[1].condition_type,
                         target |-> tp_data[1].target,
                         order_type |-> "MARKET",
                         trail |-> tp_data[1].trail,
                         trail_step |-> tp_data[1].trail_step])
              ELSE None,
         stop_loss |->
            IF sl_data # None /\ sl_data[1].enabled
              THEN Some([enabled |-> sl_data[1].enabled,
                         condition_type |-> sl_data[1].condition_type,
                         stop |-> sl_data[1].stop,
                         order_type |-> "MARKET",
                         trail |-> sl_data[1].trail,
                         trail_step |-> sl_data[1].trail_step])
              ELSE None,
         time_conditions |->
            IF tc_data # None
              THEN Some([start_time |-> tc_data[1].start_time[1],
                         end_time |-> tc_data[1].end_time[1],
                         square_off_time |-> tc_data[1].square_off_time,
                         active_days |-> tc_data[1].active_days])
              ELSE None]

\* the values of the enumeration ConditionType
ConditionTypes == {"absolute", "relative", "percentage"}

\* _db_rule_to_exit_rule raises: ConditionType(...) of a value outside the
\* enumeration is a ValueError
conversion_raises(db_rule) ==
    \/ /\ db_rule.take_profit # None /\ db_rule.take_profit[1].enabled
       /\ db_rule.take_profit[1].condition_type \notin ConditionTypes
    \/ /\ db_rule.stop_loss # None /\ db_rule.stop_loss[1].enabled
       /\ db_rule.stop_loss[1].condition_type \notin ConditionTypes

RECURSIVE load_rules_from(_, _)
\* the loop of _load_rules from rule n on: self._rules was emptied before the
\* loop and each converted rule is appended to it, so that a conversion that
\* raises leaves in self._rules the rules appended before it
load_rules_from(rule_dicts, n) ==
    IF n > Len(rule_dicts) THEN << >>
    ELSE IF ~rule_dicts[n].is_active THEN load_rules_from(rule_dicts, n + 1)
    ELSE IF conversion_raises(rule_dicts[n]) THEN << >>
    ELSE << db_rule_to_exit_rule(rule_dicts[n]) >> \o load_rules_from(rule_dicts, n + 1)

\* _load_rules ends with an exception
load_raises(rule_dicts) ==
    \E n \in 1..Len(rule_dicts) : rule_dicts[n].is_active /\ conversion_raises(rule_dicts[n])

\* TradingEngine._load_rules: self._rules after it, on rules_data["rules"]
load_rules(rule_dicts) == load_rules_from(rule_dicts, 1)

\* the letters of the symbols and patterns, with their lower-case forms
Lower(c) == IF c = "A" THEN "a" ELSE IF c = "B" THEN "b" ELSE c

\* the number of "?" that follow position i of the pattern
RECURSIVE Marks(_, _)
Marks(pattern, i) ==
    IF i < Len(pattern) /\ pattern[i + 1] = "?" THEN 1 + Marks(pattern, i + 1) ELSE 0

\* re.compile of "^" + pattern.replace("*", ".*") + "$" raises re.error: a "?"
\* with nothing before it ("nothing to repeat"), or a "?" after a repeat that
\* is lazy already ("multiple repeat": ".*??", "x???")
re_raises(pattern) ==
    \/ Len(pattern) > 0 /\ pattern[1] = "?"
    \/ \E i \in 1..Len(pattern) :
          /\ pattern[i] # "?"
          /\ Marks(pattern, i) > (IF pattern[i] = "*" THEN 1 ELSE 2)

RECURSIVE re_match(_, _, _, _)
\* re.match("^" + pattern.replace("*", ".*") + "$", symbol, re.IGNORECASE) from
\* position i of the pattern and j of the symbol, for a pattern that compiles.
\* Only "*" is translated: "." stays the regex's any character, and a "?"
\* stays the regex's quantifier of what stands before it: after a character it
\* makes the character optional ("x?", lazily "x??"), after ".*" it makes the
\* repeat lazy, which matches the same strings.
re_match(pattern, i, symbol, j) ==
    IF i > Len(pattern) THEN j > Len(symbol)
    ELSE LET next == i + 1 + Marks(pattern, i)
         IN  IF pattern[i] = "*"
               THEN re_match(pattern, next, symbol, j)
                    \/ (j <= Len(symbol) /\ re_match(pattern, i, symbol, j + 1))
             ELSE \/ /\ j <= Len(symbol)
                     /\ (pattern[i] = "." \/ Lower(pattern[i]) = Lower(symbol[j]))
                     /\ re_match(pattern, next, symbol, j + 1)
                  \/ /\ Marks(pattern, i) > 0
                     /\ re_match(pattern, next, symbol, j)

\* the three filters of _find_matching_rule for one rule
rule_matches(rule, symbol, exchange, ptype) ==
    /\ ~(rule.exchange # None /\ rule.exchange[1] # exchange)
    /\ ~(rule.apply_to # "ALL" /\ rule.apply_to # ptype)
    /\ re_match(rule.symbol_pattern, 1, symbol, 1)

\* TradingEngine._find_matching_rule: the first rule of the list that matches
find_matching_rule(rule_list, symbol, exchange, ptype) ==
    LET hits == { n \in 1..Len(rule_list) : rule_matches(rule_list[n], symbol, exchange, ptype) }
    IN  IF hits = {} THEN None
        ELSE Some(rule_list[CHOOSE n \in hits : \A m \in hits : n <= m])

-----------------------------------------------------------------------------
(* TradingEngine._active_trades: a dict, kept as its items in insertion order *)

ActiveKeys(active) == { active[n].key : n \in 1..Len(active) }

\* _active_trades[key], for a key of the dict
TradeOf(active, key) ==
    active[CHOOSE n \in 1..Len(active) : active[n].key = key].tid

\* list(_active_trades.values())
ActiveValues(active) == [n \in 1..Len(active) |-> active[n].tid]

\* del _active_trades[key]
DictDelete(active, key) == SelectSeq(active, LAMBDA e : e.key # key)

\* _active_trades[key] = trade: an existing key keeps its place
DictPut(active, key, tid) ==
    IF key \in ActiveKeys(active)
      THEN [n \in 1..Len(active) |->
              IF active[n].key = key THEN [key |-> key, tid |-> tid] ELSE active[n]]
      ELSE Append(active, [key |-> key, tid |-> tid])

-----------------------------------------------------------------------------
(* The position poll: PositionMonitor._poll_positions with the engine's     *)
(* callbacks.  m is the state the poll works on:                            *)
(*   [positions, active, trades, exec, subscribed, flatRows, flatNew, calls]  *)
(* calls lists the on_new_position ("new") and on_position_closed           *)
(* ("closed") callbacks the poll has invoked, in order.                      *)

\* a callback that tracks a position whatever its quantity
on_new_position_unchecked(m, pos, rule_list, canSubscribe) ==
    LET rule == find_matching_rule(rule_list, pos.trading_symbol, pos.exchange,
                                   position_type(pos))
    IN  IF rule = None THEN m
        ELSE [m EXCEPT
                !.trades = Append(@, NewTrade(pos, rule[1])),
                !.exec = Append(@, 0),
                !.active = DictPut(@, symbol_key(pos), Len(m.trades) + 1),
                !.subscribed = IF canSubscribe /\ pos.instrument_token # 0
                                 THEN @ \cup {pos.instrument_token} ELSE @]

\* TradingEngine._on_new_position.  canSubscribe: there is a ticker client and
\* its socket accepts the subscribe message (otherwise subscribe raises and
\* the engine logs a warning).
on_new_position(m, pos, rule_list, canSubscribe) ==
    IF pos.quantity = 0 THEN m
    ELSE on_new_position_unchecked(m, pos, rule_list, canSubscribe)

\* TradingEngine._on_position_closed
on_position_closed(m, pos) ==
    IF symbol_key(pos) \in ActiveKeys(m.active)
      THEN [m EXCEPT !.active = DictDelete(@, symbol_key(pos))]
      ELSE m

\* a row loop that forgets the quantity test
poll_row_no_flat_check(m, pos_data, rule_list, canSubscribe) ==
    LET pos == parse_position(pos_data)
        key == symbol_key(pos)
        existing == m.positions[key]
    IN  IF existing = None
          THEN on_new_position(
                 [m EXCEPT !.positions[key] = Some(pos),
                           !.calls = Append(@, [key |-> key, kind |-> "new"]),
                           !.flatNew = IF pos.quantity = 0 /\ @ < MaxCount THEN @ + 1 ELSE @],
                 pos, rule_list, canSubscribe)
          ELSE [m EXCEPT !.positions[key] = Some(pos)]

\* one turn of the row loop of _poll_positions (lines 429-481);
\* on_position_update is not set by the engine
poll_row(m, pos_data, rule_list, canSubscribe) ==
    LET pos == parse_position(pos_data)
        key == symbol_key(pos)
        existing == m.positions[key]
    IN  IF pos.quantity = 0
          THEN IF existing # None
                 THEN on_position_closed(
                        [m EXCEPT !.positions[key] = None,
                                  !.calls = Append(@, [key |-> key, kind |-> "closed"])],
                        existing[1])
                 ELSE [m EXCEPT !.flatRows = IF @ < MaxCount THEN @ + 1 ELSE @]
        ELSE IF existing = None
          THEN on_new_position(
                 [m EXCEPT !.positions[key] = Some(pos),
                           !.calls = Append(@, [key |-> key, kind |-> "new"])],
                 pos, rule_list, canSubscribe)
          ELSE [m EXCEPT !.positions[key] = Some(pos)]

RECURSIVE poll_rows(_, _, _, _, _)
\* the row loop over the response, from row n
poll_rows(m, response, n, rule_list, canSubscribe) ==
    IF n > Len(InstrumentSeq) THEN m
    ELSE poll_rows(IF response[n] = None THEN m
                   ELSE poll_row(m, response[n][1], rule_list, canSubscribe),
                   response, n + 1, rule_list, canSubscribe)

\* keys with a non-zero row in the response: current_keys
current_keys(response) ==
    { symbol_key(parse_position(response[n][1])) :
        n \in { x \in 1..Len(InstrumentSeq) :
                  response[x] # None /\ response[x][1].quantity # 0 } }

RECURSIVE poll_closed(_, _, _)
\* the loop over closed_keys (lines 483-495), over the instruments from n
poll_closed(m, keep, n) ==
    IF n > Len(InstrumentSeq) THEN m
    ELSE LET key == << InstrumentSeq[n].exchange, InstrumentSeq[n].tradingsymbol >> IN
         poll_closed(IF m.positions[key] # None /\ key \notin keep
                       THEN on_position_closed(
                              [m EXCEPT !.positions[key] = None,
                                        !.calls = Append(@, [key |-> key, kind |-> "closed"])],
                              m.positions[key][1])
                       ELSE m,
                     keep, n + 1)

\* PositionMonitor._poll_positions on a response of positions()
poll_positions(m, response, rule_list, canSubscribe) ==
    poll_closed(poll_rows(m, response, 1, rule_list, canSubscribe),
                current_keys(response), 1)

RECURSIVE poll_net_rows(_, _, _, _, _)
\* the row loop over net_positions given as the list the broker returned,
\* from row i (lines 429-481)
poll_net_rows(m, net_positions, i, rule_list, canSubscribe) ==
    IF i > Len(net_positions) THEN m
    ELSE poll_net_rows(poll_row(m, net_positions[i], rule_list, canSubscribe),
                       net_positions, i + 1, rule_list, canSubscribe)

\* current_keys after the row loop over the list net_positions
net_current_keys(net_positions) ==
    { symbol_key(parse_position(net_positions[i])) :
        i \in { x \in 1..Len(net_positions) : net_positions[x].quantity # 0 } }

\* PositionMonitor._poll_positions on the list response["net"]
poll_net_positions(m, net_positions, rule_list, canSubscribe) ==
    poll_closed(poll_net_rows(m, net_positions, 1, rule_list, canSubscribe),
                net_current_keys(net_positions), 1)

-----------------------------------------------------------------------------
(* The price loop: TradingEngine._price_loop *)

\* a loop over ltp_data.items() that stores a returned price under the token of
\* every tracked trade, not only of the trade tracked under the returned key
apply_ltp_every_trade(cache, ltp_data, active, heap, n) ==
    LET returned == { k \in Keys : ltp_data[k] # None }
        tracked == { heap[active[m].tid].position.instrument_token : m \in n..Len(active) }
    IN  [t \in DOMAIN cache |->
            IF t \in tracked /\ returned # {}
              THEN ltp_data[CHOOSE k \in returned : TRUE]
            ELSE cache[t]]

RECURSIVE apply_ltp(_, _, _, _, _)
\* the loop over ltp_data.items() (lines 494-500): each returned key sets the
\* cache entry of the token of the trade tracked under that key
apply_ltp(cache, ltp_data, active, heap, n) ==
    IF n > Len(active) THEN cache
    ELSE apply_ltp(IF ltp_data[active[n].key] # None
                     THEN [cache EXCEPT
                             ![heap[active[n].tid].position.instrument_token] =
                                 ltp_data[active[n].key]]
                     ELSE cache,
                   ltp_data, active, heap, n + 1)

RECURSIVE run_pass(_, _, _, _, _, _)
\* the evaluation loop (lines 503-506) over the trades still to visit, up to
\* the first on_trigger call, where the task is suspended, or to the sleep
run_pass(rest, heap, exec, re, cache, now) ==
    IF rest = << >>
      THEN [trades |-> heap, exec |-> exec, reEvals |-> re, pc |-> "sleep",
            rest |-> << >>, cur |-> None]
    ELSE LET tid == Head(rest)
             ev == evaluate_trade(heap[tid], cache, now)
             seen == IF heap[tid].triggered /\ re < MaxCount THEN re + 1 ELSE re
         IN  IF ev.result = None
               THEN run_pass(Tail(rest), [heap EXCEPT ![tid] = ev.trade], exec, seen,
                             cache, now)
               ELSE [trades |-> [heap EXCEPT ![tid] = trigger_exit(ev.trade, ev.result[1], now)],
                     exec |-> [exec EXCEPT ![tid] = @ + 1],
                     reEvals |-> seen,
                     pc |-> "exec",
                     rest |-> Tail(rest),
                     cur |-> Some([tid |-> tid, trigger_type |-> ev.result[1]])]

-----------------------------------------------------------------------------
(* Objects nothing refers to *)

\* what the model keeps of an ActiveTrade object that neither _active_trades
\* nor the price loop refers to: that it existed and whether it had triggered
Dropped(trade) ==
    [position |-> None, rule |-> None, tp_price |-> None, sl_price |-> None,
     current_price |-> 0, highest_price |-> 0, lowest_price |-> 0,
     triggered |-> trade.triggered, trigger_type |-> None, triggered_at |-> None]

Referenced(active, rest, cur) ==
    { active[n].tid : n \in 1..Len(active) } \cup { rest[n] : n \in 1..Len(rest) }
    \cup (IF cur = None THEN {} ELSE { cur[1].tid })

Collect(heap, active, rest, cur) ==
    [tid \in 1..Len(heap) |->
        IF tid \in Referenced(active, rest, cur) THEN heap[tid] ELSE Dropped(heap[tid])]

Live == Referenced(activeTrades, plRest, plCur)

-----------------------------------------------------------------------------
(* The state after construction, and the actions *)

\* the event types and the users the event bus is exercised with
EventTypes == {"order.placed", "trigger.tp"}
UserIds == {"user-1"}
SessionUsers == {"user-1", "user-2"}

\* pollLog before the first poll: per key the kind of the last callback
\* delivered for it, whether the callbacks of every key have alternated new,
\* the stores as the engine specifications keep them, but for those a
\* specification starts otherwise
InitSvcExcept(others) ==
    /\ IF "ruleTable" \in others THEN TRUE ELSE ruleTable = {}
    /\ IF "matchLog" \in others THEN TRUE
       ELSE matchLog = [pattern |-> None, symbol |-> << >>, result |-> "none"]
    /\ IF "exitLog" \in others THEN TRUE
       ELSE exitLog = [path |-> "none", trigger_type |-> "none", answer |-> "none",
                       attempts |-> 0, events |-> << >>]
    /\ IF "pollHealth" \in others THEN TRUE
       ELSE pollHealth = [last |-> "none", consecutive |-> 0, auth |-> 0,
                          calls |-> << >>, published |-> << >>]
    /\ IF "factory" \in others THEN TRUE
       ELSE /\ brokerAccount = None
            /\ factory = [clients |-> None, accounts |-> None]
            /\ issued = [client |-> None, cached |-> FALSE, calls |-> 0]
    /\ IF "orderBook" \in others THEN TRUE
       ELSE orderBook = [book |-> << >>, completed_order_ids |-> {}, system |-> {},
                         delivered |-> << >>, on_order_complete |-> FALSE]
    /\ IF "bus" \in others THEN TRUE
       ELSE bus = [global_handlers |-> << >>,
                   handlers |-> [et \in EventTypes |-> << >>],
                   user_handlers |-> [u \in UserIds |-> [et \in EventTypes |-> << >>]],
                   last |-> None]
    /\ IF "sessionMgr" \in others THEN TRUE
       ELSE sessionMgr = [sessions |-> [u \in SessionUsers |-> None],
                          contexts |-> [u \in SessionUsers |-> None],
                          ending |-> [u \in SessionUsers |-> None],
                          created |-> 0, ended |-> None]
    /\ IF "limiter" \in others THEN TRUE
       ELSE limiter = [count |-> [u \in SessionUsers |-> 0],
                       expires |-> [u \in SessionUsers |-> FALSE], last |-> None]
    /\ IF "inflight" \in others THEN TRUE ELSE inflight = None

InitSvc == InitSvcExcept({})

\* closed, new, ... so far, whether every response so far had one row per key,
\* of the last poll: the rows, the callbacks it delivered and the keys tracked
\* before it, and the non-zero rows of the response before the last
InitHist ==
    /\ pollLog = [last |-> [k \in Keys |-> "none"],
                  held |-> {},
                  ok |-> TRUE,
                  single |-> TRUE,
                  rows |-> << >>,
                  calls |-> << >>,
                  before |-> {}]
    /\ apiEngines = "absent"
    /\ callLog = [engine |-> "none", api |-> "none", accepted |-> "none",
                  refused |-> "none"]
    /\ tickerClient = [subscribed_tokens |-> [t \in Tokens |-> "none"],
                       is_connected |-> FALSE,
                       is_first_connect |-> TRUE,
                       streamed |-> [t \in Tokens |-> "none"],
                       at_close |-> [t \in Tokens |-> "none"]]

InitObs == InitSvc /\ InitHist

InitEngine ==
    /\ InitObs
    /\ taskCount = [poll |-> 0, price |-> 0, refresh |-> 0]
    /\ running = FALSE
    /\ startPc = "idle"
    /\ stopPc = "idle"
    /\ tickerConnected = FALSE
    /\ wsUp = FALSE
    /\ subscribed = {}
    /\ monitorRunning = FALSE
    /\ positions = [k \in Keys |-> None]
    /\ rules = << >>
    /\ rulesTask = FALSE
    /\ trades = << >>
    /\ activeTrades = << >>
    /\ prices = [t \in Tokens |-> None]
    /\ plPc = "none"
    /\ plRest = << >>
    /\ plCur = None
    /\ orders = << >>
    /\ execCount = << >>
    /\ flatRows = 0
    /\ flatNew = 0
    /\ reEvals = 0
    /\ lastEval = None

Init ==
    /\ InitEngine
    /\ tickerConfigured \in BOOLEAN
    /\ tickerCanConnect \in BOOLEAN
    /\ tickerCanConnect => tickerConfigured
    /\ clock = 1

\* start(), up to the await of get_rules (lines 566-570)
StartBegin ==
    /\ ~running /\ startPc = "idle" /\ stopPc = "idle"
    /\ running' = TRUE
    /\ startPc' = "loading"
    /\ UNCHANGED << obsVars, taskCount, stopPc, tickerVars, monitorVars, rulesVars, tradeVars, prices,
                    loopVars, clock, histVars >>

\* start(), from the result of get_rules on (lines 570-594): a new monitor,
\* the ticker or the price loop, the rules refresh loop; when _load_rules
\* raises, start() ends there with the exception
StartFinish(data) ==
    /\ startPc = "loading"
    /\ startPc' = "idle"
    /\ rules' = load_rules(data)
    /\ IF load_raises(data)
         THEN UNCHANGED << positions, monitorRunning, tickerConnected, plPc, rulesTask,
                           taskCount >>
         ELSE /\ positions' = [k \in Keys |-> None]
              /\ monitorRunning' = TRUE
              /\ IF tickerConfigured /\ tickerCanConnect
                   THEN tickerConnected' = TRUE /\ plPc' = plPc
                   ELSE tickerConnected' = tickerConnected /\ plPc' = "sleep"
              /\ rulesTask' = TRUE
              /\ taskCount' = [poll |-> taskCount.poll + 1,
                               price |-> IF tickerConfigured /\ tickerCanConnect
                                           THEN taskCount.price ELSE taskCount.price + 1,
                               refresh |-> taskCount.refresh + 1]
    /\ UNCHANGED << obsVars, running, stopPc, tickerConfigured, tickerCanConnect, wsUp, subscribed,
                    tradeVars, prices, plRest, plCur, clock, histVars >>

\* stop(), up to the await in position_monitor.stop() (lines 606-609)
StopBegin ==
    /\ running /\ startPc = "idle" /\ stopPc = "idle"
    /\ running' = FALSE
    /\ monitorRunning' = FALSE
    /\ stopPc' = "draining"
    /\ taskCount' = [taskCount EXCEPT !.poll = IF monitorRunning THEN @ - 1 ELSE @]
    /\ UNCHANGED << obsVars, startPc, tickerVars, positions, rulesVars, tradeVars, prices,
                    loopVars, clock, histVars >>

\* a stop() that leaves the price task alone
StopFinish_price_task_kept ==
    /\ stopPc = "draining"
    /\ stopPc' = "idle"
    /\ rulesTask' = FALSE
    /\ wsUp' = IF tickerConfigured /\ tickerConnected THEN FALSE ELSE wsUp
    /\ taskCount' = [taskCount EXCEPT !.refresh = IF rulesTask THEN @ - 1 ELSE @]
    /\ UNCHANGED << obsVars, running, startPc, tickerConfigured, tickerCanConnect,
                    tickerConnected, subscribed, monitorVars, rules, tradeVars, prices,
                    loopVars, clock, histVars >>

\* stop(), the rest (lines 611-631): the two tasks are cancelled, the ticker closed
StopFinish ==
    /\ stopPc = "draining"
    /\ stopPc' = "idle"
    /\ rulesTask' = FALSE
    /\ plPc' = "none"
    /\ plRest' = << >>
    /\ plCur' = None
    /\ trades' = Collect(trades, activeTrades, << >>, None)
    /\ wsUp' = IF tickerConfigured /\ tickerConnected THEN FALSE ELSE wsUp
    /\ taskCount' = [taskCount EXCEPT !.refresh = IF rulesTask THEN @ - 1 ELSE @,
                                      !.price = IF plPc # "none" THEN @ - 1 ELSE @]
    /\ UNCHANGED << obsVars, running, startPc, tickerConfigured, tickerCanConnect, tickerConnected,
                    subscribed, monitorVars, rules, activeTrades, execCount, prices,
                    clock, histVars >>

\* one turn of PositionMonitor._run_loop: _poll_positions on the broker's response
PollPositions(response) ==
    /\ monitorRunning
    /\ LET m == poll_positions(
                  [positions |-> positions, active |-> activeTrades, trades |-> trades,
                   exec |-> execCount, subscribed |-> subscribed, flatRows |-> flatRows,
                   flatNew |-> flatNew, calls |-> << >>],
                  response, rules, tickerConfigured /\ wsUp)
       IN  /\ Len(m.trades) <= MaxTrades
           /\ positions' = m.positions
           /\ activeTrades' = m.active
           /\ trades' = Collect(m.trades, m.active, plRest, plCur)
           /\ execCount' = m.exec
           /\ subscribed' = m.subscribed
           /\ flatRows' = m.flatRows
           /\ flatNew' = m.flatNew
    /\ UNCHANGED << obsVars, taskCount, lifeVars, tickerConfigured, tickerCanConnect, tickerConnected, wsUp,
                    monitorRunning, rulesVars, prices, loopVars, clock, orders, reEvals,
                    lastEval >>

\* _price_loop finds _running false at the top of the loop and ends
PriceLoopExit ==
    /\ plPc = "sleep" /\ ~running
    /\ plPc' = "none"
    /\ taskCount' = [taskCount EXCEPT !.price = @ - 1]
    /\ UNCHANGED << obsVars, lifeVars, tickerVars, monitorVars, rulesVars, tradeVars, prices,
                    plRest, plCur, clock, histVars >>

\* one iteration of _price_loop (lines 480-506): ltp() for the tracked keys (a
\* key without an answer, or all of them when the call raises), then the
\* evaluation pass over list(_active_trades.values())
PriceLoopIterate(ltp_data) ==
    /\ plPc = "sleep" /\ running
    /\ \A k \in Keys : ltp_data[k] # None => k \in ActiveKeys(activeTrades)
    /\ LET cache == apply_ltp(prices, ltp_data, activeTrades, trades, 1)
           r == run_pass(ActiveValues(activeTrades), trades, execCount, reEvals, cache,
                         Instants[clock])
       IN  /\ prices' = cache
           /\ trades' = Collect(r.trades, activeTrades, r.rest, r.cur)
           /\ execCount' = r.exec
           /\ reEvals' = r.reEvals
           /\ plPc' = r.pc
           /\ plRest' = r.rest
           /\ plCur' = r.cur
    /\ UNCHANGED << obsVars, taskCount, lifeVars, tickerVars, monitorVars, rulesVars, activeTrades, clock,
                    orders, flatRows, flatNew, lastEval >>

\* on_trigger returns to _trigger_exit: the order was placed, or place_order
\* raised (or there is no client); the pass goes on with the next trade
ExitCallbackReturn(placed) ==
    /\ plPc = "exec"
    /\ orders' = IF placed
                   THEN Append(orders, [tid |-> plCur[1].tid,
                                        position |-> trades[plCur[1].tid].position,
                                        order |-> exit_order(trades[plCur[1].tid],
                                                             plCur[1].trigger_type)])
                   ELSE orders
    /\ LET r == run_pass(plRest, trades, execCount, reEvals, prices, Instants[clock])
       IN  /\ trades' = Collect(r.trades, activeTrades, r.rest, r.cur)
           /\ execCount' = r.exec
           /\ reEvals' = r.reEvals
           /\ plPc' = r.pc
           /\ plRest' = r.rest
           /\ plCur' = r.cur
    /\ UNCHANGED << obsVars, taskCount, lifeVars, tickerVars, monitorVars, rulesVars, activeTrades, prices,
                    clock, flatRows, flatNew, lastEval >>

\* TradingEngine._on_ticks for one tick of a subscribed token
OnTicks(tick) ==
    /\ tickerConnected /\ wsUp /\ tick.instrument_token \in subscribed
    /\ prices' = IF tick.instrument_token # 0 /\ tick.last_price # 0
                   THEN [prices EXCEPT ![tick.instrument_token] = Some(tick.last_price)]
                 ELSE prices
    /\ UNCHANGED << obsVars, taskCount, lifeVars, tickerVars, monitorVars, rulesVars, tradeVars, loopVars,
                    clock, histVars >>

\* the websocket opens (KiteTickerClient._on_open), first or after a drop
WsOpen ==
    /\ tickerConnected /\ running /\ ~wsUp
    /\ wsUp' = TRUE
    /\ UNCHANGED << obsVars, taskCount, lifeVars, tickerConfigured, tickerCanConnect, tickerConnected,
                    subscribed, monitorVars, rulesVars, tradeVars, prices, loopVars,
                    clock, histVars >>

\* the websocket goes down (KiteTickerClient._on_close)
WsDrop ==
    /\ wsUp
    /\ wsUp' = FALSE
    /\ UNCHANGED << obsVars, taskCount, lifeVars, tickerConfigured, tickerCanConnect, tickerConnected,
                    subscribed, monitorVars, rulesVars, tradeVars, prices, loopVars,
                    clock, histVars >>

\* a refresh that also hands the head of the new list to every tracked trade
ReloadRules_rematch(data) ==
    /\ rulesTask
    /\ rules' = load_rules(data)
    /\ trades' = [tid \in 1..Len(trades) |->
                    IF tid \in Live /\ rules' # << >>
                      THEN [trades[tid] EXCEPT
                              !.rule = rules'[1],
                              !.tp_price = calc_tp(rules'[1], entry_price(trades[tid].position),
                                                   position_type(trades[tid].position))]
                      ELSE trades[tid]]
    /\ UNCHANGED << obsVars, taskCount, lifeVars, tickerVars, monitorVars, rulesTask, activeTrades,
                    execCount, prices, loopVars, clock, histVars >>

\* one turn of _rules_refresh_loop: _load_rules on what get_rules returned; an
\* exception of _load_rules is logged by the loop
ReloadRules(data) ==
    /\ rulesTask
    /\ rules' = load_rules(data)
    /\ UNCHANGED << obsVars, taskCount, lifeVars, tickerVars, monitorVars, rulesTask, tradeVars, prices,
                    loopVars, clock, histVars >>

\* time passes
AdvanceClock ==
    /\ clock < MaxClock /\ clock < Len(Instants)
    /\ clock' = clock + 1
    /\ UNCHANGED << obsVars, taskCount, lifeVars, tickerVars, monitorVars, rulesVars, tradeVars, prices,
                    loopVars, histVars >>

\* what ltp() may return: per key asked for, no entry or a price
LtpAnswers ==
    { a \in [Keys -> {None} \cup { Some(p) : p \in UNION { Feed[n].prices : n \in 1..Len(Feed) } }] :
        \A n \in 1..Len(InstrumentSeq) :
            LET k == << InstrumentSeq[n].exchange, InstrumentSeq[n].tradingsymbol >>
            IN  a[k] # None => a[k][1] \in Feed[n].prices }

\* the ticks the websocket may deliver: a token and its last_price
Ticks ==
    UNION { { [instrument_token |-> InstrumentSeq[n].instrument_token, last_price |-> p]
              : p \in Feed[n].prices } : n \in 1..Len(InstrumentSeq) }

Next ==
    \/ StartBegin
    \/ \E data \in DbConfigs : StartFinish(data)
    \/ StopBegin
    \/ StopFinish
    \/ \E response \in Responses : PollPositions(response)
    \/ PriceLoopExit
    \/ \E ltp_data \in LtpAnswers : PriceLoopIterate(ltp_data)
    \/ \E placed \in BOOLEAN : ExitCallbackReturn(placed)
    \/ \E tick \in Ticks : OnTicks(tick)
    \/ WsOpen
    \/ WsDrop
    \/ \E data \in DbConfigs : ReloadRules(data)
    \/ AdvanceClock

Spec == Init /\ [][Next]_vars

-----------------------------------------------------------------------------
(* One trade under evaluation: the engine runs without a ticker, one         *)
(* position has been matched to one rule, and prices and evaluations follow. *)
(* The rules are ExitRule objects as the schema builds them.                 *)

\* TakeProfitCondition(...) and StopLossCondition(...)
TakeProfitCondition(enabled, condition_type, target, trail, trail_step) ==
    [enabled |-> enabled, condition_type |-> condition_type, target |-> target,
     order_type |-> "MARKET", trail |-> trail, trail_step |-> trail_step]

StopLossCondition(enabled, condition_type, stop, trail, trail_step) ==
    [enabled |-> enabled, condition_type |-> condition_type, stop |-> stop,
     order_type |-> "MARKET", trail |-> trail, trail_step |-> trail_step]

\* ExitRule(...) with symbol_pattern "*"
ExitRule(rule_id, take_profit, stop_loss, time_conditions) ==
    [rule_id |-> rule_id, symbol_pattern |-> << "*" >>, exchange |-> None,
     apply_to |-> "ALL", take_profit |-> take_profit, stop_loss |-> stop_loss,
     time_conditions |-> time_conditions]

EvalTakeProfits ==
    { None,
      Some(TakeProfitCondition(FALSE, "absolute", 5, FALSE, None)),
      Some(TakeProfitCondition(TRUE, "absolute", 5, FALSE, None)),
      Some(TakeProfitCondition(TRUE, "absolute", 4, FALSE, None)),
      Some(TakeProfitCondition(TRUE, "relative", 1, FALSE, None)),
      Some(TakeProfitCondition(TRUE, "percentage", 25, FALSE, None)),
      Some(TakeProfitCondition(TRUE, "absolute", 5, TRUE, Some(1))),
      Some(TakeProfitCondition(TRUE, "relative", 1, TRUE, None)),
      Some(TakeProfitCondition(TRUE, "absolute", 0, TRUE, Some(1))) }

EvalStopLosses ==
    { None,
      Some(StopLossCondition(FALSE, "absolute", 3, FALSE, None)),
      Some(StopLossCondition(TRUE, "absolute", 4, FALSE, None)),
      Some(StopLossCondition(TRUE, "relative", 1, FALSE, None)),
      Some(StopLossCondition(TRUE, "percentage", 25, FALSE, None)),
      Some(StopLossCondition(TRUE, "relative", 1, TRUE, None)) }

EvalTimeConditions ==
    { None,
      Some(DefaultTimeCondition),
      Some([DefaultTimeCondition EXCEPT !.end_time = T1530]),
      Some([DefaultTimeCondition EXCEPT !.end_time = T1530, !.square_off_time = None]) }

\* the rules of this specification: every pair of conditions without a time
\* condition, and every time condition with one pair
EvalRules ==
    { ExitRule("rE", tp, sl, None) : tp \in EvalTakeProfits, sl \in EvalStopLosses }
    \cup { ExitRule("rT", Some(TakeProfitCondition(TRUE, "relative", 1, FALSE, None)),
                    Some(StopLossCondition(TRUE, "relative", 1, FALSE, None)), tc)
           : tc \in EvalTimeConditions }

EvalPrices == {3, 4, 5, 6}

\* the rows of the position: long or short, entered at 4
EvalRows ==
    { [instrument_token |-> InstrumentSeq[1].instrument_token,
       tradingsymbol |-> InstrumentSeq[1].tradingsymbol,
       exchange |-> InstrumentSeq[1].exchange, product |-> InstrumentSeq[1].product,
       quantity |-> q, average_price |-> 4, last_price |-> 4,
       buy_price |-> 4, sell_price |-> 4] : q \in {-1, 2} }

\* start() without a ticker, then one poll that finds the position and
\* _on_new_position matching it to the rule
InitEval ==
    \E rule \in EvalRules, row \in EvalRows :
        LET pos == parse_position(row) IN
        /\ running = TRUE
        /\ startPc = "idle"
        /\ stopPc = "idle"
        /\ tickerConfigured = FALSE
        /\ tickerCanConnect = FALSE
        /\ tickerConnected = FALSE
        /\ wsUp = FALSE
        /\ subscribed = {}
        /\ monitorRunning = TRUE
        /\ positions = [k \in Keys |-> IF k = symbol_key(pos) THEN Some(pos) ELSE None]
        /\ rules = << rule >>
        /\ rulesTask = TRUE
        /\ trades = << NewTrade(pos, rule) >>
        /\ activeTrades = << [key |-> symbol_key(pos), tid |-> 1] >>
        /\ prices = [t \in Tokens |-> None]
        /\ plPc = "sleep"
        /\ taskCount = [poll |-> 1, price |-> 1, refresh |-> 1]
        /\ plRest = << >>
        /\ plCur = None
        /\ clock = 1
        /\ orders = << >>
        /\ execCount = << 0 >>
        /\ flatRows = 0
        /\ flatNew = 0
        /\ reEvals = 0
        /\ lastEval = None
        /\ InitObs

\* a price for the position's token reaches the cache (_on_ticks, or line 498
\* of _price_loop)
PriceArrives(price) ==
    /\ prices' = [prices EXCEPT ![trades[1].position.instrument_token] = Some(price)]
    /\ UNCHANGED << obsVars, taskCount, lifeVars, tickerVars, monitorVars, rulesVars, tradeVars, loopVars,
                    clock, histVars >>

\* lines 503-506 of _price_loop for the trade: _evaluate_trade and, on a
\* trigger, _trigger_exit
Evaluate ==
    LET before == trades[1]
        ev == evaluate_trade(before, prices, Instants[clock])
    IN  /\ trades' = [trades EXCEPT ![1] =
                        IF ev.result = None THEN ev.trade
                        ELSE trigger_exit(ev.trade, ev.result[1], Instants[clock])]
        /\ execCount' = [execCount EXCEPT ![1] = IF ev.result = None THEN @ ELSE @ + 1]
        /\ lastEval' = Some([now |-> Instants[clock], was_triggered |-> before.triggered,
                              result |-> ev.result])
        /\ UNCHANGED << obsVars, taskCount, lifeVars, tickerVars, monitorVars, rulesVars, activeTrades,
                        prices, loopVars, clock, orders, flatRows, flatNew, reEvals >>

\* time passes, through all of Instants
TimePasses ==
    /\ clock < Len(Instants)
    /\ clock' = clock + 1
    /\ UNCHANGED << obsVars, taskCount, lifeVars, tickerVars, monitorVars, rulesVars, tradeVars, prices,
                    loopVars, histVars >>

NextEval ==
    \/ \E price \in EvalPrices : PriceArrives(price)
    \/ Evaluate
    \/ TimePasses

SpecEval == InitEval /\ [][NextEval]_vars

-----------------------------------------------------------------------------
(* Price updates of one trade: as SpecEval, for a position whose row may    *)
(* carry no last price (0.0) and prices that may be 0                        *)

WatermarkRules ==
    { ExitRule("w0", None, None, None),
      ExitRule("w1", Some(TakeProfitCondition(TRUE, "absolute", 6, FALSE, None)),
               Some(StopLossCondition(TRUE, "absolute", 1, FALSE, None)), None) }

WatermarkPrices == {0, 2, 3, 5, 6}

WatermarkRows == { [row EXCEPT !.last_price = lp] : row \in EvalRows, lp \in {0, 3} }

InitWatermark ==
    \E rule \in WatermarkRules, row \in WatermarkRows :
        LET pos == parse_position(row) IN
        /\ running = TRUE
        /\ startPc = "idle"
        /\ stopPc = "idle"
        /\ tickerConfigured = FALSE
        /\ tickerCanConnect = FALSE
        /\ tickerConnected = FALSE
        /\ wsUp = FALSE
        /\ subscribed = {}
        /\ monitorRunning = TRUE
        /\ positions = [k \in Keys |-> IF k = symbol_key(pos) THEN Some(pos) ELSE None]
        /\ rules = << rule >>
        /\ rulesTask = TRUE
        /\ trades = << NewTrade(pos, rule) >>
        /\ activeTrades = << [key |-> symbol_key(pos), tid |-> 1] >>
        /\ prices = [t \in Tokens |-> None]
        /\ plPc = "sleep"
        /\ taskCount = [poll |-> 1, price |-> 1, refresh |-> 1]
        /\ plRest = << >>
        /\ plCur = None
        /\ clock = 1
        /\ orders = << >>
        /\ execCount = << 0 >>
        /\ flatRows = 0
        /\ flatNew = 0
        /\ reEvals = 0
        /\ lastEval = None
        /\ InitObs

NextWatermark ==
    \/ \E price \in WatermarkPrices : PriceArrives(price)
    \/ Evaluate

SpecWatermark == InitWatermark /\ [][NextWatermark]_vars

-----------------------------------------------------------------------------
(* The position monitor on its own: one PositionMonitor of a started engine *)
(* whose user has no rules, polled over responses given as the list of rows *)
(* the broker returns.  Kite reports one row per exchange, symbol and       *)
(* product, so that a response may hold two rows with the same symbol_key.  *)

MonitorProducts == {"NRML", "MIS"}

MonitorRows == { [row EXCEPT !.product = p] : row \in Rows, p \in MonitorProducts }

\* the lists response["net"] may be: up to two rows, no two of them for the
\* same exchange, symbol and product
MonitorResponses ==
    { << >> } \cup { << row >> : row \in MonitorRows }
    \cup { pair \in MonitorRows \X MonitorRows :
               << pair[1].exchange, pair[1].tradingsymbol, pair[1].product >>
               # << pair[2].exchange, pair[2].tradingsymbol, pair[2].product >> }

\* no two rows of the list have the same symbol_key
OneRowPerKey(net_positions) ==
    \A i, j \in 1..Len(net_positions) :
        symbol_key(parse_position(net_positions[i]))
          = symbol_key(parse_position(net_positions[j])) => i = j

\* the rows of the list with a non-zero quantity
OpenRows(net_positions) ==
    { net_positions[i] : i \in { x \in 1..Len(net_positions) :
                                    net_positions[x].quantity # 0 } }

\* the key has a row with a non-zero quantity in the list
OpenIn(net_positions, key) ==
    \E i \in 1..Len(net_positions) :
        /\ symbol_key(parse_position(net_positions[i])) = key
        /\ net_positions[i].quantity # 0

\* the number of callbacks of the kind for the key among calls
CountOf(calls, key, kind) ==
    Cardinality({ i \in 1..Len(calls) : calls[i].key = key /\ calls[i].kind = kind })

RECURSIVE LogCalls(_, _, _)
\* the log after the callbacks calls[i..] have been delivered
LogCalls(log, calls, i) ==
    IF i > Len(calls) THEN log
    ELSE LET c == calls[i]
             inTurn == IF c.kind = "new" THEN log.last[c.key] \in {"none", "closed"}
                       ELSE log.last[c.key] = "new"
         IN  LogCalls([log EXCEPT !.last[c.key] = c.kind, !.ok = @ /\ inTurn],
                      calls, i + 1)

\* the log after a poll of net_positions that delivered calls, tracked being
\* the keys tracked before the poll
LogPoll(log, net_positions, calls, tracked) ==
    LET l == LogCalls(log, calls, 1) IN
    [l EXCEPT !.held = OpenRows(log.rows),
              !.single = @ /\ OneRowPerKey(net_positions),
              !.rows = net_positions,
              !.calls = calls,
              !.before = tracked]

\* start() has returned for a user without rules and without a ticker
InitMonitor ==
    /\ InitObs
    /\ running = TRUE
    /\ startPc = "idle"
    /\ stopPc = "idle"
    /\ tickerConfigured = FALSE
    /\ tickerCanConnect = FALSE
    /\ tickerConnected = FALSE
    /\ wsUp = FALSE
    /\ subscribed = {}
    /\ monitorRunning = TRUE
    /\ positions = [k \in Keys |-> None]
    /\ rules = << >>
    /\ rulesTask = TRUE
    /\ trades = << >>
    /\ activeTrades = << >>
    /\ prices = [t \in Tokens |-> None]
    /\ plPc = "sleep"
    /\ taskCount = [poll |-> 1, price |-> 1, refresh |-> 1]
    /\ plRest = << >>
    /\ plCur = None
    /\ clock = 1
    /\ orders = << >>
    /\ execCount = << >>
    /\ flatRows = 0
    /\ flatNew = 0
    /\ reEvals = 0
    /\ lastEval = None

\* one turn of PositionMonitor._run_loop: _poll_positions on the list of rows
MonitorPoll(net_positions) ==
    /\ monitorRunning
    /\ LET m == poll_net_positions(
                  [positions |-> positions, active |-> activeTrades, trades |-> trades,
                   exec |-> execCount, subscribed |-> subscribed, flatRows |-> flatRows,
                   flatNew |-> flatNew, calls |-> << >>],
                  net_positions, rules, tickerConfigured /\ wsUp)
       IN  /\ positions' = m.positions
           /\ activeTrades' = m.active
           /\ trades' = Collect(m.trades, m.active, plRest, plCur)
           /\ execCount' = m.exec
           /\ subscribed' = m.subscribed
           /\ flatRows' = m.flatRows
           /\ flatNew' = m.flatNew
           /\ pollLog' = LogPoll(pollLog, net_positions, m.calls,
                                 { k \in Keys : positions[k] # None })
    /\ UNCHANGED << svcVars, callVars, tickerClient, taskCount, lifeVars, tickerConfigured, tickerCanConnect,
                    tickerConnected, wsUp, monitorRunning, rulesVars, prices, loopVars,
                    clock, orders, reEvals, lastEval >>

NextMonitor == \E net_positions \in MonitorResponses : MonitorPoll(net_positions)

SpecMonitor == InitMonitor /\ [][NextMonitor]_vars

-----------------------------------------------------------------------------
(* Rule reloads: a started engine without a ticker whose user's rules are   *)
(* edited, disabled, deleted or stored with a condition type the schema     *)
(* does not know, while positions are polled and evaluated.                  *)

RelTp2 == [RelTp1 EXCEPT !.target = 2]
DbRuleSEdited == [DbRuleS EXCEPT !.take_profit = Some(RelTp2)]
DbRuleSDisabled == [DbRuleS EXCEPT !.is_active = FALSE]
\* a rule stored with a condition_type outside ConditionType
DbRuleBad == [DbRuleN EXCEPT !.id = "rB",
                             !.stop_loss = Some([RelSl1 EXCEPT !.condition_type = "points"])]

\* what get_rules may return on a refresh
ReloadConfigs ==
    { << DbRuleS, DbRuleN >>,
      << DbRuleSEdited, DbRuleN >>,
      << DbRuleSDisabled, DbRuleN >>,
      << DbRuleN >>,
      << DbRuleSEdited, DbRuleBad, DbRuleN >> }

\* start() has returned, without a ticker, with the rules first stored
InitReload ==
    /\ InitObs
    /\ running = TRUE
    /\ startPc = "idle"
    /\ stopPc = "idle"
    /\ tickerConfigured = FALSE
    /\ tickerCanConnect = FALSE
    /\ tickerConnected = FALSE
    /\ wsUp = FALSE
    /\ subscribed = {}
    /\ monitorRunning = TRUE
    /\ positions = [k \in Keys |-> None]
    /\ rules = load_rules(<< DbRuleS, DbRuleN >>)
    /\ rulesTask = TRUE
    /\ trades = << >>
    /\ activeTrades = << >>
    /\ prices = [t \in Tokens |-> None]
    /\ plPc = "sleep"
    /\ taskCount = [poll |-> 1, price |-> 1, refresh |-> 1]
    /\ plRest = << >>
    /\ plCur = None
    /\ clock = 1
    /\ orders = << >>
    /\ execCount = << >>
    /\ flatRows = 0
    /\ flatNew = 0
    /\ reEvals = 0
    /\ lastEval = None

NextReload ==
    \/ \E response \in Responses : PollPositions(response)
    \/ \E ltp_data \in LtpAnswers : PriceLoopIterate(ltp_data)
    \/ \E placed \in BOOLEAN : ExitCallbackReturn(placed)
    \/ \E data \in ReloadConfigs : ReloadRules(data)

SpecReload == InitReload /\ [][NextReload]_vars

-----------------------------------------------------------------------------
(* Rule selection: a started engine without a ticker whose rules come from  *)
(* the user's rows of trading_rules, while positions are polled.             *)

AnyPattern == << "*" >>
\* the rows the user may have stored (TradingRule: id, is_active, priority and
\* the columns _db_rule_to_exit_rule reads)
RuleRows ==
    { [DbRuleS EXCEPT !.id = "r1"] @@ [priority |-> 2],
      [DbRuleS EXCEPT !.id = "r2", !.symbol_pattern = Some(AnyPattern), !.exchange = None,
                      !.take_profit = Some(RelTp2)] @@ [priority |-> 1],
      [DbRuleS EXCEPT !.id = "r3", !.symbol_pattern = None, !.exchange = None,
                      !.is_active = FALSE] @@ [priority |-> 0],
      [DbRuleN EXCEPT !.id = "r4"] @@ [priority |-> 1],
      [DbRuleS EXCEPT !.id = "r5", !.position_type = Some("SHORT"),
                      !.take_profit = None] @@ [priority |-> 0] }
RuleTables == SUBSET RuleRows

\* the sequences without repetition of the elements of a finite set
Orderings(set) ==
    { seq \in [1..Cardinality(set) -> set] :
        \A i, j \in 1..Cardinality(set) : i # j => seq[i] # seq[j] }

\* a get_rules that leaves out the ORDER BY
get_rules_unordered(rows) == Orderings(rows)

\* PostgresRulesRepository.get_rules: the lists rules_data["rules"] may be,
\* the user's rows ordered by priority, rows of equal priority in any order
\* (no rows: get_rules returns None and _load_rules leaves _rules empty)
get_rules(rows) ==
    { seq \in Orderings(rows) :
        \A i, j \in 1..Len(seq) : i < j => seq[i].priority <= seq[j].priority }

\* start() has returned, without a ticker, with the rules of the table loaded
InitMatch ==
    /\ InitHist
    /\ InitSvcExcept({"ruleTable"})
    /\ ruleTable \in RuleTables
    /\ \E data \in get_rules(ruleTable) : rules = load_rules(data)
    /\ running = TRUE
    /\ startPc = "idle"
    /\ stopPc = "idle"
    /\ tickerConfigured = FALSE
    /\ tickerCanConnect = FALSE
    /\ tickerConnected = FALSE
    /\ wsUp = FALSE
    /\ subscribed = {}
    /\ monitorRunning = TRUE
    /\ positions = [k \in Keys |-> None]
    /\ rulesTask = TRUE
    /\ trades = << >>
    /\ activeTrades = << >>
    /\ prices = [t \in Tokens |-> None]
    /\ plPc = "sleep"
    /\ taskCount = [poll |-> 1, price |-> 1, refresh |-> 1]
    /\ plRest = << >>
    /\ plCur = None
    /\ clock = 1
    /\ orders = << >>
    /\ execCount = << >>
    /\ flatRows = 0
    /\ flatNew = 0
    /\ reEvals = 0
    /\ lastEval = None

\* one turn of _rules_refresh_loop on the user's rows
ReloadFromTable == \E data \in get_rules(ruleTable) : ReloadRules(data)

NextMatch ==
    \/ \E response \in Responses : PollPositions(response)
    \/ ReloadFromTable

SpecMatch == InitMatch /\ [][NextMatch]_vars

-----------------------------------------------------------------------------
(* Symbol patterns: _find_matching_rule on one rule without exchange or     *)
(* position-type filter, for every pattern and symbol up to a length.        *)

MaxPatternLen == 3
MaxSymbolLen == 3
PatternChars == {"A", "a", "B", "*", "?", "."}
SymbolChars == {"A", "a", "B"}
Strings(chars, max) == UNION { [1..n -> chars] : n \in 0..max }
\* the column symbol_pattern: NULL or a string (the empty string is read as
\* NULL is, as "*")
Patterns ==
    {None} \cup { Some(p) : p \in Strings(PatternChars, MaxPatternLen) \ { << >> } }
Symbols == Strings(SymbolChars, MaxSymbolLen) \ { << >> }

\* the list _load_rules makes of one row with the pattern
PatternRules(pattern) ==
    load_rules(<< [DbRuleS EXCEPT !.symbol_pattern = pattern, !.exchange = None] >>)

\* what _find_matching_rule does with the rule list on the symbol: it raises
\* (re.error), or returns the rule ("match") or None ("no match")
find_outcome(rule_list, symbol, exchange, ptype) ==
    IF \E n \in 1..Len(rule_list) :
         /\ re_raises(rule_list[n].symbol_pattern)
         /\ \A m \in 1..(n - 1) : ~rule_matches(rule_list[m], symbol, exchange, ptype)
         /\ ~(rule_list[n].exchange # None /\ rule_list[n].exchange[1] # exchange)
         /\ ~(rule_list[n].apply_to # "ALL" /\ rule_list[n].apply_to # ptype)
      THEN "raise"
    ELSE IF find_matching_rule(rule_list, symbol, exchange, ptype) # None THEN "match"
    ELSE "no match"

InitPattern ==
    /\ InitEngine
    /\ tickerConfigured = FALSE
    /\ tickerCanConnect = FALSE
    /\ clock = 1

\* the engine is given a rule and meets a position
FindMatchingRule(pattern, symbol) ==
    /\ matchLog.result = "none"
    /\ matchLog' = [pattern |-> pattern, symbol |-> symbol,
                    result |-> find_outcome(PatternRules(pattern), symbol, "BFO", "LONG")]
    /\ UNCHANGED << ruleTable, exitVars, pollHealth, factoryVars, appVars, pollLog, callVars, tickerClient, taskCount,
                    lifeVars, tickerVars, monitorVars, rulesVars, tradeVars, prices,
                    loopVars, clock, histVars >>

NextPattern == \E pattern \in Patterns, symbol \in Symbols : FindMatchingRule(pattern, symbol)

SpecPattern == InitPattern /\ [][NextPattern]_vars

-----------------------------------------------------------------------------
(* Exits: the exit order of a triggered trade, placed by on_exit_trigger    *)
(* (src/main.py, the engine's on_trigger) or by                              *)
(* RuleExecutionService.execute_exit (src/src/core/services.py), and the     *)
(* PositionMonitor's poll of the broker's orders.                            *)

MaxOrders == 2
TriggerTypes == {"TP", "SL", "SQUARE_OFF"}
\* what the broker does with a place_order call: it accepts the order, or the
\* call fails transiently (network error, 5xx, timeout), or it rejects the order
BrokerAnswers == {"ok", "transient", "rejected"}

\* the triggered trades an exit is executed for
ExitTrades ==
    { NewTrade(parse_position(row), load_rules(<< DbRuleS >>)[1]) :
        row \in { r \in RowsOf(1) : r.quantity # 0 } }

\* str.startswith of a tag "{part}_{part}", kept as the sequence of its parts,
\* with a prefix "{part}_"
starts_with(tag, prefixes) == tag # None /\ tag[1][1] \in prefixes

\* TradingService.place_order: the events it publishes and whether it raises.
\* hasBroker: the user has a session with a broker.
place_order(events, hasBroker, answer) ==
    IF ~hasBroker THEN [events |-> events, raised |-> TRUE, calls |-> 0]
    ELSE IF answer = "ok"
      THEN [events |-> Append(events, "ORDER_PLACED"), raised |-> FALSE, calls |-> 1]
    ELSE [events |-> Append(events, "ORDER_REJECTED"), raised |-> TRUE, calls |-> 1]

\* RuleExecutionService.execute_exit: place_order, then the trigger event when
\* place_order returned; an exception ends it with None
execute_exit(hasBroker, trigger_type, answer) ==
    LET placed == place_order(<< >>, hasBroker, answer)
    IN  [path |-> "service",
         trigger_type |-> trigger_type,
         answer |-> IF hasBroker THEN answer ELSE "no client",
         attempts |-> placed.calls,
         events |-> IF placed.raised THEN placed.events
                    ELSE Append(placed.events,
                                IF trigger_type = "TP" THEN "TP_TRIGGERED"
                                ELSE "SL_TRIGGERED")]

\* on_exit_trigger (src/main.py): one call of kite_client.place_order, whose
\* exception is logged; without a client, no call
on_exit_trigger(hasClient, trigger_type, answer) ==
    [path |-> "engine",
     trigger_type |-> trigger_type,
     answer |-> IF hasClient THEN answer ELSE "no client",
     attempts |-> IF hasClient THEN 1 ELSE 0,
     events |-> << >>]

\* the broker's order book after the exit: the order is in it when accepted
Booked(book, log, tag, side) ==
    IF log.answer = "ok"
      THEN Append(book, [tag |-> tag, transaction_type |-> side, by |-> log.path,
                         status |-> "OPEN"])
    ELSE book

RECURSIVE poll_orders(_, _)
\* PositionMonitor._poll_orders from order n of the broker's list on
poll_orders(ob, n) ==
    IF n > Len(ob.book) THEN ob
    ELSE LET order == ob.book[n]
         IN  IF order.status = "COMPLETE" /\ n \notin ob.completed_order_ids
               THEN LET seen == [ob EXCEPT !.completed_order_ids = @ \cup {n}]
                    IN  IF starts_with(order.tag, {"TP", "SL"})
                          THEN poll_orders([seen EXCEPT !.system = @ \cup {n}], n + 1)
                        ELSE IF ob.on_order_complete
                          THEN poll_orders([seen EXCEPT !.delivered = Append(@, n)],
                                           n + 1)
                        ELSE poll_orders(seen, n + 1)
             ELSE poll_orders(ob, n + 1)

InitExit ==
    /\ InitHist
    /\ InitSvcExcept({"orderBook"})
    /\ \E callback \in BOOLEAN :
          orderBook = [book |-> << >>, completed_order_ids |-> {}, system |-> {},
                       delivered |-> << >>, on_order_complete |-> callback]
    /\ taskCount = [poll |-> 0, price |-> 0, refresh |-> 0]
    /\ running = FALSE
    /\ startPc = "idle"
    /\ stopPc = "idle"
    /\ tickerConfigured = FALSE
    /\ tickerCanConnect = FALSE
    /\ tickerConnected = FALSE
    /\ wsUp = FALSE
    /\ subscribed = {}
    /\ monitorRunning = FALSE
    /\ positions = [k \in Keys |-> None]
    /\ rules = << >>
    /\ rulesTask = FALSE
    /\ trades = << >>
    /\ activeTrades = << >>
    /\ prices = [t \in Tokens |-> None]
    /\ plPc = "none"
    /\ plRest = << >>
    /\ plCur = None
    /\ clock = 1
    /\ orders = << >>
    /\ execCount = << >>
    /\ flatRows = 0
    /\ flatNew = 0
    /\ reEvals = 0
    /\ lastEval = None

exitFrame ==
    << ruleTable, matchLog, pollHealth, factoryVars, appVars, pollLog, callVars, tickerClient, taskCount, lifeVars,
       tickerVars, monitorVars, rulesVars, tradeVars, prices, loopVars, clock,
       histVars >>

\* _trigger_exit calls on_trigger = on_exit_trigger for a triggered trade
OnExitTrigger(trade, trigger_type, hasClient, answer) ==
    /\ Len(orderBook.book) < MaxOrders
    /\ exitLog' = on_exit_trigger(hasClient, trigger_type, answer)
    /\ orderBook' = [orderBook EXCEPT
                       !.book = Booked(@, exitLog',
                                       Some(exit_order(trade, trigger_type).tag),
                                       exit_order(trade, trigger_type).transaction_type)]
    /\ UNCHANGED exitFrame

\* execute_exit is called for a triggered position
ExecuteExit(trade, trigger_type, hasBroker, answer) ==
    /\ Len(orderBook.book) < MaxOrders
    /\ exitLog' = execute_exit(hasBroker, trigger_type, answer)
    /\ orderBook' = [orderBook EXCEPT
                       !.book = Booked(@, exitLog', Some(<< "AUTO", trigger_type >>),
                                       IF trade.position.quantity > 0 THEN "SELL"
                                       ELSE "BUY")]
    /\ UNCHANGED exitFrame

\* the user places an order by hand, without a tag
ManualOrder(side) ==
    /\ Len(orderBook.book) < MaxOrders
    /\ orderBook' = [orderBook EXCEPT
                       !.book = Append(@, [tag |-> None, transaction_type |-> side,
                                          by |-> "user", status |-> "OPEN"])]
    /\ UNCHANGED << exitLog, exitFrame >>

\* the exchange fills an order
OrderCompletes(n) ==
    /\ n \in 1..Len(orderBook.book)
    /\ orderBook.book[n].status = "OPEN"
    /\ orderBook' = [orderBook EXCEPT !.book[n].status = "COMPLETE"]
    /\ UNCHANGED << exitLog, exitFrame >>

\* one turn of PositionMonitor._run_loop: _poll_orders
PollOrders ==
    /\ orderBook' = poll_orders(orderBook, 1)
    /\ UNCHANGED << exitLog, exitFrame >>

NextExit ==
    \/ \E trade \in ExitTrades, trigger_type \in TriggerTypes, hasClient \in BOOLEAN,
          answer \in BrokerAnswers :
          OnExitTrigger(trade, trigger_type, hasClient, answer)
    \/ \E trade \in ExitTrades, trigger_type \in TriggerTypes, hasBroker \in BOOLEAN,
          answer \in BrokerAnswers :
          ExecuteExit(trade, trigger_type, hasBroker, answer)
    \/ \E side \in {"BUY", "SELL"} : ManualOrder(side)
    \/ \E n \in 1..MaxOrders : OrderCompletes(n)
    \/ PollOrders

SpecExit == InitExit /\ [][NextExit]_vars

-----------------------------------------------------------------------------
(* Failing polls: a started engine without a ticker whose monitor's         *)
(* positions() call raises, or meets a row it cannot parse, in some turns.   *)

MaxFailures == 4
\* why kite_client.positions() raises: the access token is refused
\* (TokenException) or the request fails (network error, timeout, 5xx)
FetchFailures == {"auth", "network"}

RECURSIVE poll_rows_before(_, _, _, _, _, _)
\* the row loop over the response from row n, up to the row bad, at which
\* the loop is left by an exception
poll_rows_before(m, response, n, bad, rule_list, canSubscribe) ==
    IF n >= bad \/ n > Len(InstrumentSeq) THEN m
    ELSE poll_rows_before(IF response[n] = None THEN m
                          ELSE poll_row(m, response[n][1], rule_list, canSubscribe),
                          response, n + 1, bad, rule_list, canSubscribe)

\* a failed turn that goes on to the loop over closed_keys with the keys of
\* the rows it has seen
poll_positions_failed_then_closes(m, response, bad, rule_list, canSubscribe) ==
    poll_closed(poll_rows_before(m, response, 1, bad, rule_list, canSubscribe),
                { k \in current_keys(response) :
                    \E n \in 1..(bad - 1) :
                        k = << InstrumentSeq[n].exchange, InstrumentSeq[n].tradingsymbol >> },
                1)

\* PositionMonitor._poll_positions when an exception is raised in the try
\* block: by positions() (bad = 0) or in the turn of the row loop for row bad;
\* the except clause logs it, and the loop over closed_keys is not reached
poll_positions_failed(m, response, bad, rule_list, canSubscribe) ==
    poll_rows_before(m, response, 1, bad, rule_list, canSubscribe)

\* the history after a turn of _poll_positions
Health(h, kind, calls) ==
    [h EXCEPT !.last = kind,
              !.consecutive = IF kind = "ok" THEN 0
                              ELSE IF @ < MaxFailures THEN @ + 1 ELSE @,
              !.auth = IF kind # "auth" THEN 0
                       ELSE IF @ < MaxFailures THEN @ + 1 ELSE @,
              !.calls = calls]

InitPollFail ==
    /\ InitReload

pollFrame ==
    << ruleTable, matchLog, exitVars, factoryVars, appVars, pollLog, callVars, tickerClient, taskCount,
       lifeVars, tickerConfigured, tickerCanConnect, tickerConnected, wsUp,
       monitorRunning, rulesVars, prices, loopVars, clock, orders, reEvals, lastEval >>

\* the monitor's state after a turn that left it as m
Polled(m) ==
    /\ Len(m.trades) <= MaxTrades
    /\ positions' = m.positions
    /\ activeTrades' = m.active
    /\ trades' = Collect(m.trades, m.active, plRest, plCur)
    /\ execCount' = m.exec
    /\ subscribed' = m.subscribed
    /\ flatRows' = m.flatRows
    /\ flatNew' = m.flatNew

\* the state a turn of _poll_positions works on
PollState ==
    [positions |-> positions, active |-> activeTrades, trades |-> trades,
     exec |-> execCount, subscribed |-> subscribed, flatRows |-> flatRows,
     flatNew |-> flatNew, calls |-> << >>]

\* one turn of _run_loop whose _poll_positions runs to its end
PollSucceeds(response) ==
    /\ monitorRunning
    /\ LET m == poll_positions(PollState, response, rules, tickerConfigured /\ wsUp)
       IN  /\ Polled(m)
           /\ pollHealth' = Health(pollHealth, "ok", m.calls)
    /\ UNCHANGED pollFrame

\* one turn of _run_loop whose _poll_positions is left by an exception, the
\* broker holding the positions of response: positions() raises (bad = 0), or
\* row bad of the response cannot be parsed
PollFails(response, bad, kind) ==
    /\ monitorRunning
    /\ IF bad = 0 THEN kind \in FetchFailures
       ELSE kind = "parse" /\ bad \in 1..Len(InstrumentSeq) /\ response[bad] # None
    /\ LET m == poll_positions_failed(PollState, response, bad, rules,
                                      tickerConfigured /\ wsUp)
       IN  /\ Polled(m)
           /\ pollHealth' = Health(pollHealth, kind, m.calls)
    /\ UNCHANGED pollFrame

NextPollFail ==
    \/ \E response \in Responses : PollSucceeds(response)
    \/ \E response \in Responses, bad \in 0..Len(InstrumentSeq),
          kind \in FetchFailures \cup {"parse"} : PollFails(response, bad, kind)

SpecPollFail == InitPollFail /\ [][NextPollFail]_vars

-----------------------------------------------------------------------------
(* The broker client factory: get_client for one user and broker, while the *)
(* user's broker account is created, given new credentials or tokens,       *)
(* deactivated or deleted, and time passes.                                  *)

MaxVersion == 2
\* api_key and access_token are kept as the number of their version, an
\* access_token of 0 being the empty one; token_expires_at is None or an
\* instant of the clock
Versions == 1..MaxVersion
ExpiryTimes == {None} \cup { Some(t) : t \in 2..(MaxClock + 1) }

\* BrokerClientFactory._is_token_valid
is_token_valid(account, now) ==
    IF account.access_token = 0 THEN FALSE
    ELSE IF account.token_expires_at # None THEN now < account.token_expires_at[1]
    ELSE TRUE

\* BrokerClientFactory._create_client for broker_type "kite": the client holds
\* the decrypted api_key and access_token; a decryption that raises gives None
create_client(account, decrypts) ==
    IF decrypts
      THEN Some([api_key |-> account.api_key, access_token |-> account.access_token])
    ELSE None

\* get_client, lines 59-62: the cached client is returned
cache_hit(f, now) ==
    f.clients # None /\ f.accounts # None /\ is_token_valid(f.accounts[1], now)

\* get_client from the return of 'await self._get_broker_account' on (lines
\* 64-80), on the account the query returned
get_client_resume(f, account, now, decrypts) ==
    IF account = None
      THEN [factory |-> f, client |-> None, cached |-> FALSE]
    ELSE IF ~is_token_valid(account[1], now)
      THEN [factory |-> f, client |-> None, cached |-> FALSE]
    ELSE LET client == create_client(account[1], decrypts)
         IN  [factory |-> IF client # None
                            THEN [clients |-> client, accounts |-> account]
                          ELSE f,
              client |-> client, cached |-> FALSE]

\* BrokerClientFactory.get_client: the factory after the call and the value
\* returned.  account is what get_by_user_and_broker returns.
get_client(f, account, now, decrypts) ==
    IF cache_hit(f, now)
      THEN [factory |-> f, client |-> f.clients, cached |-> TRUE]
    ELSE get_client_resume(f, account, now, decrypts)

\* PostgresBrokerAccountRepository.create_or_update: an access_token of 0 and
\* a token_expires_at of None stand for the arguments left out
create_or_update(existing, api_key, access_token, token_expires_at) ==
    IF existing # None
      THEN Some([existing[1] EXCEPT
                   !.api_key = api_key,
                   !.is_active = TRUE,
                   !.access_token = IF access_token # 0 THEN access_token ELSE @,
                   !.token_expires_at =
                       IF token_expires_at # None THEN token_expires_at ELSE @])
    ELSE Some([api_key |-> api_key, access_token |-> access_token,
               token_expires_at |-> token_expires_at, is_active |-> TRUE])

InitFactory ==
    /\ InitEngine
    /\ tickerConfigured = FALSE
    /\ tickerCanConnect = FALSE
    /\ clock = 1

factoryFrame ==
    << ruleTable, matchLog, exitVars, pollHealth, appVars, pollLog, callVars, tickerClient,
       taskCount, lifeVars, tickerVars, monitorVars, rulesVars, tradeVars, prices,
       loopVars, clock, histVars >>

\* a request handler or the engine asks for the user's client
GetClient(decrypts) ==
    /\ LET r == get_client(factory, brokerAccount, clock, decrypts)
       IN  /\ factory' = r.factory
           /\ issued' = [client |-> r.client, cached |-> r.cached,
                         calls |-> IF issued.calls < MaxCount THEN issued.calls + 1
                                   ELSE issued.calls]
    /\ UNCHANGED << brokerAccount, factoryFrame >>

\* POST /user/broker (set_broker_credentials): the api key and secret are stored
SetBrokerCredentials(api_key) ==
    /\ brokerAccount' = create_or_update(brokerAccount, api_key, 0, None)
    /\ UNCHANGED << factory, issued, factoryFrame >>

\* the OAuth callback (OAuthManager._store_broker_credentials): the keys and
\* the new tokens are stored
StoreBrokerCredentials(api_key, access_token, token_expires_at) ==
    /\ brokerAccount' = create_or_update(brokerAccount, api_key, access_token,
                                         token_expires_at)
    /\ UNCHANGED << factory, issued, factoryFrame >>

\* PostgresBrokerAccountRepository.deactivate: the broker is disconnected
Deactivate ==
    /\ brokerAccount # None
    /\ brokerAccount' = Some([brokerAccount[1] EXCEPT !.is_active = FALSE,
                                                      !.access_token = 0])
    /\ UNCHANGED << factory, issued, factoryFrame >>

\* PostgresBrokerAccountRepository.update with is_active false: the account is
\* suspended, its token left in place
Suspend ==
    /\ brokerAccount # None
    /\ brokerAccount' = Some([brokerAccount[1] EXCEPT !.is_active = FALSE])
    /\ UNCHANGED << factory, issued, factoryFrame >>

\* PostgresBrokerAccountRepository.delete
DeleteAccount ==
    /\ brokerAccount # None
    /\ brokerAccount' = None
    /\ UNCHANGED << factory, issued, factoryFrame >>

\* BrokerClientFactory.invalidate_client
InvalidateClient ==
    /\ factory' = [clients |-> None, accounts |-> None]
    /\ UNCHANGED << brokerAccount, issued, factoryFrame >>

NextFactory ==
    \/ \E decrypts \in BOOLEAN : GetClient(decrypts)
    \/ \E api_key \in Versions : SetBrokerCredentials(api_key)
    \/ \E api_key \in Versions, access_token \in Versions,
          token_expires_at \in ExpiryTimes :
          StoreBrokerCredentials(api_key, access_token, token_expires_at)
    \/ Deactivate
    \/ Suspend
    \/ DeleteAccount
    \/ InvalidateClient
    \/ AdvanceClock

SpecFactory == InitFactory /\ [][NextFactory]_vars

-----------------------------------------------------------------------------
(* The event bus (core/events.py): handlers are registered for every event, *)
(* for an event type, or for an event type of one user; publish calls the   *)
(* handlers it collects one after the other.                                 *)

\* handler registrations in one behaviour
MaxHandlers == 3

\* what a handler does when it is called: it returns ("ok"), it raises an
\* Exception ("raise"), or it raises a BaseException that is no Exception,
\* such as asyncio.CancelledError or SystemExit ("exit")
HandlerOutcomes == {"ok", "raise", "exit"}
Handlers ==
    {[id |-> 1, does |-> "ok"], [id |-> 2, does |-> "raise"], [id |-> 3, does |-> "exit"]}
Events == [type : EventTypes, user_id : {None} \cup {Some(u) : u \in UserIds}]

\* handlers_to_call of publish: the global handlers, then those of the event
\* type, then those of the event's user for the event type
handlers_to_call(b, event) ==
    b.global_handlers
      \o b.handlers[event.type]
      \o (IF event.user_id # None THEN b.user_handlers[event.user_id[1]][event.type]
          ELSE << >>)

\* the loop of publish from handler i on, a handler's error ending the loop
RECURSIVE call_handlers_until_error(_, _, _)
call_handlers_until_error(to_call, i, invoked) ==
    IF i > Len(to_call) THEN [invoked |-> invoked, raised |-> "none"]
    ELSE IF to_call[i].does = "ok"
      THEN call_handlers_until_error(to_call, i + 1, Append(invoked, to_call[i]))
    ELSE [invoked |-> Append(invoked, to_call[i]), raised |-> to_call[i].does]

\* the loop of publish from handler i on: each handler is called inside
\* try/except Exception, so that what is no Exception leaves publish
RECURSIVE call_handlers(_, _, _)
call_handlers(to_call, i, invoked) ==
    IF i > Len(to_call) THEN [invoked |-> invoked, raised |-> "none"]
    ELSE IF to_call[i].does = "exit"
      THEN [invoked |-> Append(invoked, to_call[i]), raised |-> "exit"]
    ELSE call_handlers(to_call, i + 1, Append(invoked, to_call[i]))

\* EventBus.publish: the event, the handlers called in order, and what the
\* publisher sees raised
publish(b, event) ==
    LET r == call_handlers(handlers_to_call(b, event), 1, << >>)
    IN  [event |-> event, invoked |-> r.invoked, raised |-> r.raised]

Registered(b) ==
    Len(b.global_handlers)
      + Len(b.handlers["order.placed"]) + Len(b.handlers["trigger.tp"])
      + Len(b.user_handlers["user-1"]["order.placed"])
      + Len(b.user_handlers["user-1"]["trigger.tp"])

\* list.remove: the first occurrence is taken out, ValueError when absent
RECURSIVE list_remove(_, _)
list_remove(list, x) ==
    IF list = << >> THEN << >>
    ELSE IF Head(list) = x THEN Tail(list)
    ELSE << Head(list) >> \o list_remove(Tail(list), x)

InitBus ==
    /\ InitEngine
    /\ tickerConfigured = FALSE
    /\ tickerCanConnect = FALSE
    /\ clock = 1

oldSvcVarsButFactory == << ruleTable, matchLog, exitVars, pollHealth >>
oldSvcVars == << oldSvcVarsButFactory, factoryVars >>
engineFrame ==
    << pollLog, callVars, tickerClient, taskCount, lifeVars, tickerVars, monitorVars,
       rulesVars, tradeVars, prices, loopVars, clock, histVars >>
busFrame == << oldSvcVars, sessionMgr, limiter, inflight, engineFrame >>

\* @bus.subscribe_all()
SubscribeAll(handler) ==
    /\ Registered(bus) < MaxHandlers
    /\ bus' = [bus EXCEPT !.global_handlers = Append(@, handler), !.last = None]
    /\ UNCHANGED busFrame

\* bus.add_handler(event_type, handler, user_id) and @bus.subscribe
AddHandler(event_type, handler, user_id) ==
    /\ Registered(bus) < MaxHandlers
    /\ bus' = IF user_id # None
                THEN [bus EXCEPT !.user_handlers[user_id[1]][event_type] =
                                     Append(@, handler),
                                 !.last = None]
              ELSE [bus EXCEPT !.handlers[event_type] = Append(@, handler),
                               !.last = None]
    /\ UNCHANGED busFrame

\* bus.remove_handler(event_type, handler, user_id)
RemoveHandler(event_type, handler, user_id) ==
    /\ bus' = IF user_id # None
                THEN [bus EXCEPT !.user_handlers[user_id[1]][event_type] =
                                     list_remove(@, handler),
                                 !.last = None]
              ELSE [bus EXCEPT !.handlers[event_type] = list_remove(@, handler),
                               !.last = None]
    /\ UNCHANGED busFrame

\* bus.remove_user_handlers(user_id)
RemoveUserHandlers(user_id) ==
    /\ bus' = [bus EXCEPT !.user_handlers[user_id] = [et \in EventTypes |-> << >>],
                          !.last = None]
    /\ UNCHANGED busFrame

\* await bus.publish(event)
Publish(event) ==
    /\ bus' = [bus EXCEPT !.last = Some(publish(bus, event))]
    /\ UNCHANGED busFrame

NextBus ==
    \/ \E handler \in Handlers : SubscribeAll(handler)
    \/ \E event_type \in EventTypes, handler \in Handlers,
          user_id \in {None} \cup {Some(u) : u \in UserIds} :
          AddHandler(event_type, handler, user_id)
    \/ \E event_type \in EventTypes, handler \in Handlers,
          user_id \in {None} \cup {Some(u) : u \in UserIds} :
          RemoveHandler(event_type, handler, user_id)
    \/ \E user_id \in UserIds : RemoveUserHandlers(user_id)
    \/ \E event \in Events : Publish(event)

SpecBus == InitBus /\ [][NextBus]_vars

-----------------------------------------------------------------------------
(* A tracked position that changes: the engine runs without a ticker, and   *)
(* the rows of positions() for the first instrument change from poll to     *)
(* poll in quantity, side and last price.                                    *)

\* the rows of the first instrument, entered at 3
DiffRows ==
    { [instrument_token |-> InstrumentSeq[1].instrument_token,
       tradingsymbol |-> InstrumentSeq[1].tradingsymbol,
       exchange |-> InstrumentSeq[1].exchange, product |-> InstrumentSeq[1].product,
       quantity |-> q, average_price |-> 3, last_price |-> lp,
       buy_price |-> 3, sell_price |-> 3] : q \in {-1, 0, 1, 2}, lp \in {3, 4} }

DiffResponses ==
    { [n \in 1..Len(InstrumentSeq) |-> IF n = 1 THEN Some(row) ELSE None]
      : row \in DiffRows }

InitDiff ==
    /\ InitReload

NextDiff ==
    \/ \E response \in DiffResponses : PollPositions(response)
    \/ \E ltp_data \in LtpAnswers : PriceLoopIterate(ltp_data)
    \/ \E placed \in BOOLEAN : ExitCallbackReturn(placed)

SpecDiff == InitDiff /\ [][NextDiff]_vars

-----------------------------------------------------------------------------
(* Two positions under one rule: the engine runs without a ticker, either   *)
(* trade may trigger, and polls arrive while a pass of the price loop is    *)
(* suspended at its on_trigger call.                                         *)

\* a rule for every symbol of every exchange, with a relative take-profit and
\* stop-loss of 1
DbRuleAll == [DbRuleS EXCEPT !.id = "rA", !.symbol_pattern = Some(<< "*" >>),
                             !.exchange = None]

\* what ltp() may return here: per key asked for, no entry, 3 or 4
PassLtpAnswers == [Keys -> {None, Some(3), Some(4)}]

InitPass ==
    /\ InitObs
    /\ running = TRUE
    /\ startPc = "idle"
    /\ stopPc = "idle"
    /\ tickerConfigured = FALSE
    /\ tickerCanConnect = FALSE
    /\ tickerConnected = FALSE
    /\ wsUp = FALSE
    /\ subscribed = {}
    /\ monitorRunning = TRUE
    /\ positions = [k \in Keys |-> None]
    /\ rules = load_rules(<< DbRuleAll >>)
    /\ rulesTask = TRUE
    /\ trades = << >>
    /\ activeTrades = << >>
    /\ prices = [t \in Tokens |-> None]
    /\ plPc = "sleep"
    /\ taskCount = [poll |-> 1, price |-> 1, refresh |-> 1]
    /\ plRest = << >>
    /\ plCur = None
    /\ clock = 1
    /\ orders = << >>
    /\ execCount = << >>
    /\ flatRows = 0
    /\ flatNew = 0
    /\ reEvals = 0
    /\ lastEval = None

NextPass ==
    \/ \E response \in Responses : PollPositions(response)
    \/ \E ltp_data \in PassLtpAnswers : PriceLoopIterate(ltp_data)
    \/ \E placed \in BOOLEAN : ExitCallbackReturn(placed)

SpecPass == InitPass /\ [][NextPass]_vars

-----------------------------------------------------------------------------
(* get_client suspended: the call awaits the query for the account, and     *)
(* credentials are stored and the cache invalidated in the meantime.        *)
(* inflight is None, or the suspended call: the account its query read and, *)
(* as history, the account as it was when invalidate_client last ran during *)
(* the suspension.                                                           *)

\* get_client up to 'await self._get_broker_account(...)': a cached client
\* with a valid token is returned, otherwise the query reads the account
GetClientBegin ==
    /\ inflight = None
    /\ IF cache_hit(factory, clock)
         THEN /\ issued' = [client |-> factory.clients, cached |-> TRUE,
                            calls |-> IF issued.calls < MaxCount THEN issued.calls + 1
                                      ELSE issued.calls]
              /\ UNCHANGED inflight
         ELSE /\ inflight' = Some([account |-> brokerAccount, invalidated |-> None])
              /\ UNCHANGED issued
    /\ UNCHANGED << brokerAccount, factory, oldSvcVarsButFactory, bus, sessionMgr,
                    limiter, engineFrame >>

\* get_client from the return of the query on
GetClientFinish(decrypts) ==
    /\ inflight # None
    /\ LET r == get_client_resume(factory, inflight[1].account, clock, decrypts)
       IN  /\ factory' = r.factory
           /\ issued' = [client |-> r.client, cached |-> r.cached,
                         calls |-> IF issued.calls < MaxCount THEN issued.calls + 1
                                   ELSE issued.calls]
    /\ inflight' = None
    /\ UNCHANGED << brokerAccount, oldSvcVarsButFactory, bus, sessionMgr, limiter,
                    engineFrame >>

\* BrokerClientFactory.invalidate_client, whether a get_client is suspended
\* or not
InvalidateClientAnyTime ==
    /\ factory' = [clients |-> None, accounts |-> None]
    /\ inflight' = IF inflight = None THEN None
                   ELSE Some([inflight[1] EXCEPT !.invalidated = Some(brokerAccount)])
    /\ UNCHANGED << brokerAccount, issued, oldSvcVarsButFactory, bus, sessionMgr,
                    limiter, engineFrame >>

InitRace ==
    /\ InitEngine
    /\ tickerConfigured = FALSE
    /\ tickerCanConnect = FALSE
    /\ clock = 1

NextRace ==
    \/ GetClientBegin
    \/ \E decrypts \in BOOLEAN : GetClientFinish(decrypts)
    \/ \E api_key \in Versions, access_token \in Versions,
          token_expires_at \in ExpiryTimes :
          StoreBrokerCredentials(api_key, access_token, token_expires_at)
    \/ Deactivate
    \/ InvalidateClientAnyTime

SpecRace == InitRace /\ [][NextRace]_vars

-----------------------------------------------------------------------------
(* The session manager (core/sessions.py) for two users: sessions are       *)
(* created and ended, contexts get background tasks, and end_session is     *)
(* suspended in context.cleanup() while it awaits a cancelled task.          *)
(* A session is the number of its creation; a context is                     *)
(* [session, tasks, is_active], tasks being whether it holds a task that     *)
(* has not finished.                                                         *)

\* sessions created in one behaviour
MaxSessions == 3

\* end_session from the return of context.cleanup() on (lines 347-349): the
\* dicts are popped by user_id; the value is the manager and the session
\* popped
end_session_pop(mgr, user_id) ==
    [mgr |-> [mgr EXCEPT !.sessions[user_id] = None, !.contexts[user_id] = None],
     removed |-> mgr.sessions[user_id]]

\* end_session when cleanup() finds no unfinished task and so does not
\* suspend (cancel_tasks skips the tasks that are done): the session is
\* removed in one piece
end_session_now(mgr, user_id) ==
    IF mgr.sessions[user_id] = None THEN mgr
    ELSE [end_session_pop(mgr, user_id).mgr EXCEPT
            !.ended = Some([user_id |-> user_id, target |-> mgr.sessions[user_id][1],
                            removed |-> mgr.sessions[user_id]])]

InitSessions ==
    /\ InitEngine
    /\ tickerConfigured = FALSE
    /\ tickerCanConnect = FALSE
    /\ clock = 1

sessionFrame == << oldSvcVars, bus, limiter, inflight, engineFrame >>

\* create_session for the user, when the session there is (if any) has a
\* context without unfinished tasks: the nested end_session does not suspend,
\* and the new session and context are registered
CreateSession(user_id) ==
    /\ sessionMgr.created < MaxSessions
    /\ IF sessionMgr.contexts[user_id] = None THEN TRUE
       ELSE ~sessionMgr.contexts[user_id][1].tasks
    /\ LET sid == sessionMgr.created + 1 IN
       sessionMgr' = [end_session_now(sessionMgr, user_id) EXCEPT
                        !.sessions[user_id] = Some(sid),
                        !.contexts[user_id] = Some([session |-> sid, tasks |-> FALSE,
                                                    is_active |-> TRUE]),
                        !.created = sid]
    /\ UNCHANGED sessionFrame

\* context.add_task(task)
AddTask(user_id) ==
    /\ sessionMgr.contexts[user_id] # None
    /\ ~sessionMgr.contexts[user_id][1].tasks
    /\ sessionMgr.contexts[user_id][1].is_active
    /\ sessionMgr' = [sessionMgr EXCEPT !.contexts[user_id][1].tasks = TRUE]
    /\ UNCHANGED sessionFrame

\* end_session(user_id), up to the first 'await task' of cancel_tasks, or to
\* its end when cleanup() has nothing to await
EndSessionBegin(user_id) ==
    /\ sessionMgr.ending[user_id] = None /\ sessionMgr.sessions[user_id] # None
    /\ sessionMgr' =
         IF sessionMgr.contexts[user_id] # None /\ sessionMgr.contexts[user_id][1].tasks
           THEN [sessionMgr EXCEPT
                   !.contexts[user_id][1].is_active = FALSE,
                   !.ending[user_id] = Some([target |-> sessionMgr.sessions[user_id][1],
                                             task_done |-> FALSE])]
         ELSE end_session_now(sessionMgr, user_id)
    /\ UNCHANGED sessionFrame

\* the cancelled task of the context under cleanup finishes; the end_session
\* awaiting it becomes ready to run
TaskEnds(user_id) ==
    /\ sessionMgr.ending[user_id] # None /\ ~sessionMgr.ending[user_id][1].task_done
    /\ sessionMgr' = [sessionMgr EXCEPT
                        !.ending[user_id][1].task_done = TRUE,
                        !.contexts[user_id] =
                            IF @ # None /\ @[1].session = sessionMgr.ending[user_id][1].target
                              THEN Some([@[1] EXCEPT !.tasks = FALSE])
                            ELSE @]
    /\ UNCHANGED sessionFrame

\* the suspended end_session runs again, after whatever was ready before it
EndSessionResume(user_id) ==
    /\ sessionMgr.ending[user_id] # None /\ sessionMgr.ending[user_id][1].task_done
    /\ LET r == end_session_pop(sessionMgr, user_id) IN
       sessionMgr' = [r.mgr EXCEPT
                        !.ending[user_id] = None,
                        !.ended = Some([user_id |-> user_id,
                                        target |-> sessionMgr.ending[user_id][1].target,
                                        removed |-> r.removed])]
    /\ UNCHANGED sessionFrame

NextSessions ==
    \/ \E user_id \in SessionUsers : CreateSession(user_id)
    \/ \E user_id \in SessionUsers : AddTask(user_id)
    \/ \E user_id \in SessionUsers : EndSessionBegin(user_id)
    \/ \E user_id \in SessionUsers : TaskEnds(user_id)
    \/ \E user_id \in SessionUsers : EndSessionResume(user_id)

SpecSessions == InitSessions /\ [][NextSessions]_vars

-----------------------------------------------------------------------------
(* The rate limiter (auth/dependencies.py): a FastAPI dependency that       *)
(* counts a user's requests in a Redis key with a time to live of one       *)
(* window.                                                                  *)

\* RateLimiter(requests=...): the most requests a window admits
LimiterRequests == 2
\* INCRs of one key within one window
MaxIncr == 4

\* the exceptions the body of __call__ raises: the HTTPException of the
\* limit, and what the Redis client raises when it is not initialised or
\* not reachable
LimiterRaises == {"HTTPException", "RuntimeError", "ConnectionError"}
\* what a Redis command does
RedisAnswers == {"ok", "RuntimeError", "ConnectionError"}

\* isinstance(e, Exception): fastapi.HTTPException derives from Exception, as
\* do RuntimeError and ConnectionError
IsException(e) == e \in {"HTTPException", "RuntimeError", "ConnectionError"}

\* the body of the try block (lines 225-239) after an INCR that returned
\* count: "none" or the exception raised
limit_check(count) ==
    IF count > LimiterRequests THEN "HTTPException" ELSE "none"

\* 'except Exception as e: logger.warning(...)' (lines 240-242): what leaves
\* __call__ of what the try block raised
except_Exception(raised) ==
    IF raised # "none" /\ IsException(raised) THEN "none" ELSE raised

\* the response to the request whose dependency ended with 'leaves'
http_response(leaves) ==
    IF leaves = "none" THEN "pass"
    ELSE IF leaves = "HTTPException" THEN "429"
    ELSE "500"

InitLimiter ==
    /\ InitEngine
    /\ tickerConfigured = FALSE
    /\ tickerCanConnect = FALSE
    /\ clock = 1

limiterFrame == << oldSvcVars, bus, sessionMgr, inflight, engineFrame >>

\* RateLimiter.__call__(request, user_id) with Redis answering 'redis' to the
\* INCR
RateLimiterCall(user_id, redis) ==
    /\ limiter.count[user_id] < MaxIncr
    /\ LET count == limiter.count[user_id] + 1
           raised == IF redis = "ok" THEN limit_check(count) ELSE redis
           leaves == except_Exception(raised)
       IN limiter' =
            [count |-> IF redis = "ok" THEN [limiter.count EXCEPT ![user_id] = count]
                       ELSE limiter.count,
             expires |-> IF redis = "ok" /\ count = 1
                           THEN [limiter.expires EXCEPT ![user_id] = TRUE]
                         ELSE limiter.expires,
             last |-> Some([user_id |-> user_id,
                            count |-> IF redis = "ok" THEN Some(count) ELSE None,
                            raised |-> raised,
                            response |-> http_response(leaves)])]
    /\ UNCHANGED limiterFrame

\* Redis drops the user's key when its time to live (one window) is over
KeyExpires(user_id) ==
    /\ limiter.expires[user_id]
    /\ limiter' = [limiter EXCEPT !.count[user_id] = 0, !.expires[user_id] = FALSE,
                                  !.last = None]
    /\ UNCHANGED limiterFrame

NextLimiter ==
    \/ \E user_id \in SessionUsers, redis \in RedisAnswers : RateLimiterCall(user_id, redis)
    \/ \E user_id \in SessionUsers : KeyExpires(user_id)

SpecLimiter == InitLimiter /\ [][NextLimiter]_vars

-----------------------------------------------------------------------------
(* The lifecycle: start() and stop() of the TradingEngine called one after  *)
(* the other, the repeated calls included, and the start/stop endpoints of  *)
(* api/routers/trading.py for one user.                                      *)

\* start() called when start() has returned and the engine runs: line 566
\* returns at once
StartAgain ==
    /\ running /\ startPc = "idle" /\ stopPc = "idle"
    /\ callLog' = [callLog EXCEPT !.engine = "start"]
    /\ UNCHANGED << svcVars, pollLog, tickerClient, apiEngines, taskCount, lifeVars, tickerVars, monitorVars,
                    rulesVars, tradeVars, prices, loopVars, clock, histVars >>

\* stop() called when the engine does not run: it has no guard and goes
\* through all of lines 606-629 again, on a monitor without a task and on
\* tasks that have ended
StopAgain ==
    /\ ~running /\ startPc = "idle" /\ stopPc = "idle"
    /\ monitorRunning' = FALSE
    /\ rulesTask' = FALSE
    /\ plPc' = "none"
    /\ plRest' = << >>
    /\ plCur' = None
    /\ trades' = Collect(trades, activeTrades, << >>, None)
    /\ wsUp' = IF tickerConfigured /\ tickerConnected THEN FALSE ELSE wsUp
    /\ taskCount' = [poll |-> IF monitorRunning THEN taskCount.poll - 1 ELSE taskCount.poll,
                     price |-> IF plPc # "none" THEN taskCount.price - 1
                               ELSE taskCount.price,
                     refresh |-> IF rulesTask THEN taskCount.refresh - 1
                                 ELSE taskCount.refresh]
    /\ callLog' = [callLog EXCEPT !.engine = "stop"]
    /\ UNCHANGED << svcVars, pollLog, tickerClient, apiEngines, lifeVars, tickerConfigured, tickerCanConnect,
                    tickerConnected, subscribed, positions, rules, activeTrades,
                    execCount, prices, clock, histVars >>

\* POST /engine/start of api/routers/trading.py
ApiStart ==
    /\ IF apiEngines = "running"
         THEN /\ callLog' = [callLog EXCEPT !.api = "400", !.refused = "start"]
              /\ UNCHANGED apiEngines
         ELSE /\ apiEngines' = "running"
              /\ callLog' = [callLog EXCEPT !.api = "200", !.accepted = "start"]
    /\ UNCHANGED << svcVars, pollLog, tickerClient, taskCount, lifeVars, tickerVars, monitorVars, rulesVars,
                    tradeVars, prices, loopVars, clock, histVars >>

\* POST /engine/stop of api/routers/trading.py
ApiStop ==
    /\ IF apiEngines # "running"
         THEN /\ callLog' = [callLog EXCEPT !.api = "400", !.refused = "stop"]
              /\ UNCHANGED apiEngines
         ELSE /\ apiEngines' = "stopped"
              /\ callLog' = [callLog EXCEPT !.api = "200", !.accepted = "stop"]
    /\ UNCHANGED << svcVars, pollLog, tickerClient, taskCount, lifeVars, tickerVars, monitorVars, rulesVars,
                    tradeVars, prices, loopVars, clock, histVars >>

NextLifecycle ==
    \/ StartBegin
    \/ \E data \in DbConfigs : StartFinish(data)
    \/ StopBegin
    \/ StopFinish
    \/ StartAgain
    \/ StopAgain
    \/ ApiStart
    \/ ApiStop
    \/ PriceLoopExit
    \/ WsOpen
    \/ WsDrop

SpecLifecycle == Init /\ [][NextLifecycle]_vars

-----------------------------------------------------------------------------
(* start() and stop() overlapping: stop() called while start() is suspended *)
(* in get_rules, and a start() whose _load_rules raises.                     *)

\* stop() called while start() awaits get_rules (POST /engine/stop passes its
\* is_running() test, since start() has set _running): the monitor and the
\* tasks of the run before are stopped or not yet made, so that stop() meets
\* no pending task and runs to its end without a suspension
StopWhileLoading ==
    /\ startPc = "loading" /\ stopPc = "idle" /\ running
    /\ ~monitorRunning /\ ~rulesTask /\ plPc = "none"
    /\ taskCount.poll <= MaxCount
    /\ running' = FALSE
    /\ wsUp' = IF tickerConfigured /\ tickerConnected THEN FALSE ELSE wsUp
    /\ UNCHANGED << obsVars, taskCount, startPc, stopPc, tickerConfigured,
                    tickerCanConnect, tickerConnected, subscribed, monitorVars,
                    rulesVars, tradeVars, prices, loopVars, clock, histVars >>

\* _rules_refresh_loop finds _running false and ends
RulesLoopExit ==
    /\ rulesTask /\ ~running /\ stopPc = "idle"
    /\ rulesTask' = FALSE
    /\ taskCount' = [taskCount EXCEPT !.refresh = @ - 1]
    /\ UNCHANGED << obsVars, lifeVars, tickerVars, monitorVars, rules, tradeVars,
                    prices, loopVars, clock, histVars >>

\* what get_rules returns to start(): rules that load, or a list with a rule
\* whose conversion raises
StartConfigs == { << DbRuleS, DbRuleN >>, << DbRuleSEdited, DbRuleBad, DbRuleN >> }

\* the responses of positions() here: a row for the second instrument or none
OverlapResponses == { r \in Responses : r[1] = None }

InitOverlap ==
    /\ Init

NextOverlap ==
    \/ StartBegin
    \/ \E data \in StartConfigs : StartFinish(data)
    \/ StopWhileLoading
    \/ StopBegin
    \/ StopFinish
    \/ PriceLoopExit
    \/ RulesLoopExit
    \/ \E response \in OverlapResponses : PollPositions(response)

SpecOverlap == InitOverlap /\ [][NextOverlap]_vars

-----------------------------------------------------------------------------
(* The KiteTickerClient on its own: subscriptions and modes over closes and *)
(* reconnects of the socket.  connect(threaded=True) runs the socket and its *)
(* callbacks in a thread of their own, while subscribe is called from the   *)
(* engine's thread; subscribed_tokens is shared without a lock.              *)

MODE_LTP == "ltp"
MODE_QUOTE == "quote"
MODE_FULL == "full"
TickerModes == << MODE_LTP, MODE_QUOTE, MODE_FULL >>

\* subscribe(instrument_tokens) on an open socket
subscribe(tk, instrument_tokens) ==
    [tk EXCEPT
        !.streamed = [t \in Tokens |-> IF t \in instrument_tokens THEN MODE_QUOTE ELSE @[t]],
        !.subscribed_tokens =
            [t \in Tokens |-> IF t \in instrument_tokens THEN MODE_QUOTE ELSE @[t]]]

\* unsubscribe(instrument_tokens) on an open socket
unsubscribe(tk, instrument_tokens) ==
    [tk EXCEPT
        !.streamed = [t \in Tokens |-> IF t \in instrument_tokens THEN "none" ELSE @[t]],
        !.subscribed_tokens =
            [t \in Tokens |-> IF t \in instrument_tokens THEN "none" ELSE @[t]]]

\* set_mode(mode, instrument_tokens) on an open socket
set_mode(tk, mode, instrument_tokens) ==
    [tk EXCEPT
        !.streamed = [t \in Tokens |-> IF t \in instrument_tokens THEN mode ELSE @[t]],
        !.subscribed_tokens =
            [t \in Tokens |-> IF t \in instrument_tokens THEN mode ELSE @[t]]]

RECURSIVE resubscribe_quote_only(_, _, _)
\* a resubscribe that sends the subscribe messages only
resubscribe_quote_only(tk, modes, n) ==
    IF n > Len(TickerModes) THEN tk
    ELSE resubscribe_quote_only(
             IF modes[n] = {} THEN tk ELSE subscribe(tk, modes[n]), modes, n + 1)

RECURSIVE resubscribe(_, _, _)
\* the second loop of resubscribe(), over the modes from the n-th on: modes[n]
\* are the tokens the first loop has collected for the n-th mode
resubscribe(tk, modes, n) ==
    IF n > Len(TickerModes) THEN tk
    ELSE resubscribe(
             IF modes[n] = {} THEN tk
             ELSE set_mode(subscribe(tk, modes[n]), TickerModes[n], modes[n]),
             modes, n + 1)

\* the first loop of resubscribe(): the tokens of subscribed_tokens by mode
tokens_by_mode(tk) ==
    [n \in 1..Len(TickerModes) |->
        { t \in Tokens : tk.subscribed_tokens[t] = TickerModes[n] }]

\* _on_open
on_open(tk) ==
    LET opened == [tk EXCEPT !.is_connected = TRUE, !.is_first_connect = FALSE] IN
    IF tk.is_first_connect THEN opened
    ELSE resubscribe(opened, tokens_by_mode(opened), 1)

\* the client as __init__ leaves it, connect() called
InitTicker ==
    /\ InitEngine
    /\ tickerConfigured = TRUE
    /\ tickerCanConnect = TRUE
    /\ clock = 1

\* the socket opens, first or after a close: _on_open runs to its end
TickerOpen ==
    /\ ~tickerClient.is_connected
    /\ tickerClient' = on_open(tickerClient)
    /\ UNCHANGED << svcVars, pollLog, callVars, taskCount, lifeVars, tickerVars, monitorVars,
                    rulesVars, tradeVars, prices, loopVars, clock, histVars >>

\* the socket opens again while the engine's thread subscribes a token that
\* is not in subscribed_tokens yet, so that the insertion falls into the first
\* loop of resubscribe(): the iteration over the dict raises RuntimeError
\* (the dict changed size), websocket-client logs the exception of the
\* callback, and nothing has been sent again
TickerOpenRaced(token) ==
    /\ ~tickerClient.is_connected /\ ~tickerClient.is_first_connect
    /\ tickerClient.subscribed_tokens[token] = "none"
    /\ \E t \in Tokens : tickerClient.subscribed_tokens[t] # "none"
    /\ tickerClient' = subscribe([tickerClient EXCEPT !.is_connected = TRUE], {token})
    /\ UNCHANGED << svcVars, pollLog, callVars, taskCount, lifeVars, tickerVars, monitorVars,
                    rulesVars, tradeVars, prices, loopVars, clock, histVars >>

\* the socket closes (_on_close): the server streams nothing on it any more
TickerClose ==
    /\ tickerClient.is_connected
    /\ tickerClient' = [tickerClient EXCEPT
                          !.is_connected = FALSE,
                          !.at_close = tickerClient.streamed,
                          !.streamed = [t \in Tokens |-> "none"]]
    /\ UNCHANGED << svcVars, pollLog, callVars, taskCount, lifeVars, tickerVars, monitorVars,
                    rulesVars, tradeVars, prices, loopVars, clock, histVars >>

\* subscribe([token]) by the user of the client, the socket being open (on a
\* closed socket ws.send raises and subscribed_tokens is not touched)
TickerSubscribe(token) ==
    /\ tickerClient.is_connected
    /\ tickerClient' = subscribe(tickerClient, {token})
    /\ UNCHANGED << svcVars, pollLog, callVars, taskCount, lifeVars, tickerVars, monitorVars,
                    rulesVars, tradeVars, prices, loopVars, clock, histVars >>

\* set_mode(mode, [token]) for a subscribed token, the socket being open
TickerSetMode(mode, token) ==
    /\ tickerClient.is_connected
    /\ tickerClient.subscribed_tokens[token] # "none"
    /\ tickerClient' = set_mode(tickerClient, mode, {token})
    /\ UNCHANGED << svcVars, pollLog, callVars, taskCount, lifeVars, tickerVars, monitorVars,
                    rulesVars, tradeVars, prices, loopVars, clock, histVars >>

\* unsubscribe([token]), the socket being open
TickerUnsubscribe(token) ==
    /\ tickerClient.is_connected
    /\ tickerClient.subscribed_tokens[token] # "none"
    /\ tickerClient' = unsubscribe(tickerClient, {token})
    /\ UNCHANGED << svcVars, pollLog, callVars, taskCount, lifeVars, tickerVars, monitorVars,
                    rulesVars, tradeVars, prices, loopVars, clock, histVars >>

NextTicker ==
    \/ TickerOpen
    \/ \E token \in Tokens : TickerOpenRaced(token)
    \/ TickerClose
    \/ \E token \in Tokens : TickerSubscribe(token)
    \/ \E token \in Tokens, n \in 1..Len(TickerModes) : TickerSetMode(TickerModes[n], token)
    \/ \E token \in Tokens : TickerUnsubscribe(token)

SpecTicker == InitTicker /\ [][NextTicker]_vars

-----------------------------------------------------------------------------
(* Properties of the engine (Spec) *)

OrdersOf(tid) == { n \in DOMAIN orders : orders[n].tid = tid }

\* C1: for every ActiveTrade, whatever the interleaving of polls, price loop
\* passes, callbacks, reloads, stops and starts, on_trigger is invoked at most
\* once and at most one exit order is placed.
C1_AtMostOneExit ==
    \A tid \in DOMAIN trades :
        /\ execCount[tid] <= 1
        /\ Cardinality(OrdersOf(tid)) <= 1

\* a trade has triggered, its one order is placed, and a later pass has come
\* by a triggered trade again
C1_Witness ==
    \E tid \in Live :
        /\ trades[tid].triggered
        /\ execCount[tid] = 1
        /\ Cardinality(OrdersOf(tid)) = 1
        /\ reEvals > 0

\* C2: once an ActiveTrade has triggered it stays triggered, no later step
\* invokes on_trigger for it again, and as long as the object is referred to
\* its prices, watermarks, trigger_type and triggered_at stay as they are.
C2_TriggeredIsTerminal ==
    [][\A tid \in DOMAIN trades :
          trades[tid].triggered =>
              /\ trades'[tid].triggered
              /\ execCount'[tid] = execCount[tid]
              /\ (tid \in Live' => trades'[tid] = trades[tid])]_vars

\* a pass has evaluated a triggered trade, and a triggered trade still holds a
\* price other than the one now cached for its token
C2_Witness ==
    /\ reEvals > 0
    /\ \E tid \in Live :
          /\ trades[tid].triggered
          /\ prices[trades[tid].position.instrument_token] # None
          /\ prices[trades[tid].position.instrument_token][1] # trades[tid].current_price

\* C3: a row with quantity 0 is never tracked: the monitor's positions hold no
\* quantity 0, no ActiveTrade in use is for a quantity 0, and on_new_position
\* is never called with one.
C3_FlatNeverTracked ==
    /\ \A k \in Keys : positions[k] # None => positions[k][1].quantity # 0
    /\ \A tid \in Live : trades[tid].position.quantity # 0
    /\ flatNew = 0

\* a poll has processed a quantity 0 row for a key it did not track, and
\* nothing has ever been tracked
C3_Witness ==
    /\ flatRows > 0
    /\ trades = << >>
    /\ \A k \in Keys : positions[k] = None

\* what _price_loop does with one trade: the evaluation and, on a trigger, the
\* marking of _trigger_exit
Evaluated(trade, cache, now) ==
    LET ev == evaluate_trade(trade, cache, now) IN
    IF ev.result = None THEN ev.trade ELSE trigger_exit(ev.trade, ev.result[1], now)

\* C4 as the specification states it: with the ticker connected, a tick that
\* changes the cached price of a token has every untriggered ActiveTrade of
\* that token evaluated against the new price (and triggered when it decides so).
C4_TickEvaluates ==
    [][(tickerConnected /\ wsUp /\ plPc = "none" /\ prices' # prices) =>
          \A n \in 1..Len(activeTrades) :
              LET tid == activeTrades[n].tid
                  token == trades[tid].position.instrument_token
              IN  (~trades[tid].triggered /\ prices'[token] # prices[token]) =>
                      trades'[tid] = Evaluated(trades[tid], prices', Instants[clock])]_vars

\* the websocket has been open (a subscription went out) and is down
WentDown == tickerConnected /\ ~wsUp /\ subscribed # {}

\* C5 as the specification states it: while the engine runs and no stream
\* delivers prices (no ticker, connect failed, or the websocket went down),
\* the polling loop is there.
C5_PollingWhenNoStream ==
    (running /\ startPc = "idle" /\ stopPc = "idle"
     /\ (~tickerConfigured \/ ~tickerConnected \/ WentDown))
        => plPc # "none"

\* C10: every exit order placed closes the position the trade holds: SELL for
\* a long and BUY for a short, the absolute quantity, and the position's
\* exchange, trading symbol and product.
C10_ExitOrderClosesPosition ==
    \A n \in DOMAIN orders :
        LET o == orders[n].order
            pos == orders[n].position
        IN  /\ pos.quantity # 0
            /\ o.transaction_type = (IF pos.quantity > 0 THEN "SELL" ELSE "BUY")
            /\ o.quantity > 0
            /\ o.quantity \in { pos.quantity, 0 - pos.quantity }
            /\ o.exchange = pos.exchange
            /\ o.tradingsymbol = pos.trading_symbol
            /\ o.product = pos.product

\* an order has been placed for a short position
C10_Witness ==
    \E n \in DOMAIN orders :
        /\ orders[n].position.quantity < 0
        /\ orders[n].order.transaction_type = "BUY"

-----------------------------------------------------------------------------
(* Properties of one evaluation (SpecEval).  After an evaluation of a trade  *)
(* that had not triggered, trades[1] is the trade as the evaluation left it: *)
(* its current_price is the price the evaluation used.                       *)

\* an "HH:MM" string as minutes of the day
Minutes(hhmm) == (hhmm[1] * 10 + hhmm[2]) * 60 + hhmm[3] * 10 + hhmm[4]

\* the last step of the trade's history is an evaluation of it, untriggered
JustEvaluated == lastEval # None /\ ~lastEval[1].was_triggered

IsLong == trades[1].position.quantity > 0

\* the evaluation was outside the rule's days or its [start, end] window
OutsideWindow ==
    LET tc == trades[1].rule.time_conditions
        now == lastEval[1].now
    IN  tc # None /\ (\/ now.weekday \notin tc[1].active_days
                      \/ now.minute < Minutes(tc[1].start_time)
                      \/ now.minute > Minutes(tc[1].end_time))

\* the evaluation was at or after the rule's square_off_time
SquareOffDue ==
    LET tc == trades[1].rule.time_conditions IN
    tc # None /\ tc[1].square_off_time # None
    /\ lastEval[1].now.minute >= Minutes(tc[1].square_off_time[1])

StaticTp ==
    trades[1].rule.take_profit # None /\ trades[1].rule.take_profit[1].enabled
    /\ ~trades[1].rule.take_profit[1].trail

StaticSl ==
    trades[1].rule.stop_loss # None /\ trades[1].rule.stop_loss[1].enabled
    /\ ~trades[1].rule.stop_loss[1].trail

\* the price of the evaluation is at or beyond the take-profit price
TpReached ==
    trades[1].tp_price # None
    /\ IF IsLong THEN trades[1].current_price >= trades[1].tp_price[1]
       ELSE trades[1].current_price <= trades[1].tp_price[1]

\* the price of the evaluation is at or beyond the stop-loss price
SlReached ==
    trades[1].sl_price # None
    /\ IF IsLong THEN trades[1].current_price <= trades[1].sl_price[1]
       ELSE trades[1].current_price >= trades[1].sl_price[1]

ExpectedTp(tp) ==
    CASE tp.condition_type = "absolute" -> tp.target
      [] tp.condition_type = "relative" -> IF IsLong THEN 4 + tp.target ELSE 4 - tp.target
      [] tp.condition_type = "percentage" -> IF IsLong THEN 5 ELSE 3

ExpectedSl(sl) ==
    CASE sl.condition_type = "absolute" -> sl.stop
      [] sl.condition_type = "relative" -> IF IsLong THEN 4 - sl.stop ELSE 4 + sl.stop
      [] sl.condition_type = "percentage" -> IF IsLong THEN 3 ELSE 5

\* C7: without trailing, check_tp holds exactly at prices >= tp_price for a
\* long and <= tp_price for a short, check_sl exactly at prices <= sl_price for
\* a long and >= sl_price for a short, equality included; tp_price and sl_price
\* are what calc_tp and calc_sl give for the entry price; an absent or disabled
\* condition never holds; and with no time condition the evaluation returns TP
\* exactly when the take-profit holds, SL exactly when only the stop-loss holds.
C7_StaticThresholds ==
    LET t == trades[1]
        rule == t.rule
        side == position_type(t.position)
        entry == entry_price(t.position)
        tpOn == rule.take_profit # None /\ rule.take_profit[1].enabled
        slOn == rule.stop_loss # None /\ rule.stop_loss[1].enabled
    IN  /\ entry = 4
        /\ t.tp_price = calc_tp(rule, entry, side)
        /\ t.sl_price = calc_sl(rule, entry, side)
        /\ t.tp_price = IF tpOn THEN Some(ExpectedTp(rule.take_profit[1])) ELSE None
        /\ t.sl_price = IF slOn THEN Some(ExpectedSl(rule.stop_loss[1])) ELSE None
        /\ \A price \in EvalPrices :
              /\ check_tp(rule, price, entry, side) <=>
                    (tpOn /\ IF IsLong THEN price >= t.tp_price[1]
                                       ELSE price <= t.tp_price[1])
              /\ check_sl(rule, price, entry, side) <=>
                    (slOn /\ IF IsLong THEN price <= t.sl_price[1]
                                       ELSE price >= t.sl_price[1])
        /\ (JustEvaluated /\ rule.time_conditions = None) =>
              /\ ~tpOn => lastEval[1].result # Some("TP")
              /\ ~slOn => lastEval[1].result # Some("SL")
              /\ StaticTp => (lastEval[1].result = Some("TP") <=> TpReached)
              /\ (StaticTp /\ StaticSl) =>
                    (lastEval[1].result = Some("SL") <=> (SlReached /\ ~TpReached))

\* an evaluation at a cached price equal to the take-profit price has returned TP
C7_Witness ==
    /\ JustEvaluated
    /\ StaticTp
    /\ prices[trades[1].position.instrument_token] = Some(trades[1].current_price)
    /\ trades[1].current_price = trades[1].tp_price[1]
    /\ lastEval[1].result = Some("TP")

\* C8 as the specification states it: an evaluation returns SQUARE_OFF exactly
\* when the time is at or after the rule's square_off_time.
C8_SquareOffAtOrAfter ==
    (JustEvaluated /\ trades[1].rule.time_conditions # None
     /\ trades[1].rule.time_conditions[1].square_off_time # None) =>
        (lastEval[1].result = Some("SQUARE_OFF") <=> SquareOffDue)

\* C9 as the specification states it: under a trailing take-profit with step
\* s (none given: 0) and no time condition, the evaluation returns TP exactly
\* when the watermark has reached tp_price and the price is at or beyond the
\* watermark less s (plus s for a short).
C9_TrailingTp ==
    LET t == trades[1]
        tp == t.rule.take_profit
        s == IF tp[1].trail_step = None THEN 0 ELSE tp[1].trail_step[1]
    IN  (JustEvaluated /\ tp # None /\ tp[1].enabled /\ tp[1].trail
         /\ t.rule.time_conditions = None) =>
            (lastEval[1].result = Some("TP") <=>
                IF IsLong
                  THEN t.highest_price >= t.tp_price[1]
                       /\ t.current_price <= t.highest_price - s
                  ELSE t.lowest_price <= t.tp_price[1]
                       /\ t.current_price >= t.lowest_price + s)

-----------------------------------------------------------------------------
(* Properties of the position monitor (SpecMonitor) *)

\* what C11 says of one key, on the log of the polls so far
AlternatesFor(k) ==
    /\ (\E row \in pollLog.held \cap OpenRows(pollLog.rows) :
            symbol_key(parse_position(row)) = k)
         => CountOf(pollLog.calls, k, "new") = 0
    /\ (positions[k] # None) <=> (pollLog.last[k] = "new")
    /\ (k \in pollLog.before /\ ~OpenIn(pollLog.rows, k))
         => /\ CountOf(pollLog.calls, k, "closed") = 1
            /\ positions[k] = None

\* C11: over any sequence of polls the callbacks of a key alternate new,
\* closed, new, ... starting with new; a key the broker reports with the same
\* non-zero row as in the poll before gets no further new-position callback;
\* a tracked key that is reported with quantity 0 or not at all gets one
\* position-closed callback in that poll and is not tracked after it.
C11_CallbacksAlternate ==
    /\ pollLog.ok
    /\ \A k \in Keys : AlternatesFor(k)

\* the same, as long as every response has had one row per key
C11_OneRowPerKey ==
    pollLog.single => pollLog.ok /\ \A k \in Keys : AlternatesFor(k)

-----------------------------------------------------------------------------
(* Properties of rule reloads (SpecReload) *)

RulesIn(rule_list) == { rule_list[n] : n \in 1..Len(rule_list) }

\* C12: as long as an ActiveTrade is tracked, no step (a reload that edits,
\* disables or deletes its rule included) changes its rule, its tp_price or its
\* sl_price, which are what its evaluations read; a trade created by a poll
\* gets a rule of the list as it is at that poll, and the thresholds computed
\* from that rule.
C12_RuleFixedAtCreation ==
    [][ /\ \A tid \in 1..Len(trades) :
             (tid \in Live /\ tid \in Live')
               => /\ trades'[tid].rule = trades[tid].rule
                  /\ trades'[tid].tp_price = trades[tid].tp_price
                  /\ trades'[tid].sl_price = trades[tid].sl_price
        /\ \A tid \in (Len(trades) + 1)..Len(trades') :
             tid \in Live'
               => /\ trades'[tid].rule \in RulesIn(rules)
                  /\ trades'[tid].tp_price
                       = calc_tp(trades'[tid].rule, entry_price(trades'[tid].position),
                                 position_type(trades'[tid].position))
                  /\ trades'[tid].sl_price
                       = calc_sl(trades'[tid].rule, entry_price(trades'[tid].position),
                                 position_type(trades'[tid].position)) ]_vars

\* a tracked trade has triggered on a rule that the list no longer holds: the
\* list holds an edited rule of the same id, or no rule of that id
C12_Witness ==
    \E tid \in Live :
        /\ trades[tid].triggered
        /\ trades[tid].rule \notin RulesIn(rules)
        /\ \E r \in RulesIn(rules) : r.rule_id = trades[tid].rule.rule_id

RECURSIVE CompleteRules(_, _)
\* the complete rule set of what get_rules returned: every active rule that
\* can be converted, from rule n on
CompleteRules(rule_dicts, n) ==
    IF n > Len(rule_dicts) THEN << >>
    ELSE (IF rule_dicts[n].is_active /\ ~conversion_raises(rule_dicts[n])
            THEN << db_rule_to_exit_rule(rule_dicts[n]) >> ELSE << >>)
         \o CompleteRules(rule_dicts, n + 1)

\* C13: a reload leaves the rule list either as it was or as the complete rule
\* set of what was fetched, also when the reload fails part-way.
C13_ReloadAtomic ==
    [][ \A data \in ReloadConfigs :
          ReloadRules(data) => rules' \in { rules, CompleteRules(data, 1) } ]_vars

\* the same for the reloads that do not raise
C13_AtomicWhenNoFailure ==
    [][ \A data \in ReloadConfigs :
          (ReloadRules(data) /\ ~load_raises(data)) => rules' = CompleteRules(data, 1) ]_vars

-----------------------------------------------------------------------------
(* Properties of price updates (SpecWatermark) *)

\* the statement as the specification gives it: highest_price never decreases
\* and lowest_price never increases
C14_Monotone ==
    [][ /\ trades'[1].highest_price >= trades[1].highest_price
        /\ trades'[1].lowest_price <= trades[1].lowest_price ]_vars

\* C14: over the price updates of a trade highest_price never decreases, and
\* lowest_price never increases as long as it is not 0; a lowest_price of 0
\* stands for "not set" and the next update replaces it by the new price.
C14_MonotoneOnceSet ==
    [][ /\ trades'[1].highest_price >= trades[1].highest_price
        /\ trades[1].lowest_price # 0
             => trades'[1].lowest_price <= trades[1].lowest_price
        /\ (trades[1].lowest_price = 0 /\ trades'[1] # trades[1] /\ ~trades[1].triggered)
             => trades'[1].lowest_price = trades'[1].current_price ]_vars

\* the price has been above and below where it is now: both watermarks have
\* moved away from the current price
C14_Witness ==
    /\ 0 < trades[1].lowest_price
    /\ trades[1].lowest_price < trades[1].current_price
    /\ trades[1].current_price < trades[1].highest_price

-----------------------------------------------------------------------------
(* Properties of the lifecycle (SpecLifecycle) *)

Quiet == startPc = "idle" /\ stopPc = "idle"

\* start() and stop() of the TradingEngine: never two tasks of a kind; when a
\* call has returned and the engine runs, one poll loop, one refresh loop and
\* one price source (the price loop or the ticker); when it does not run, none
EngineIdempotent ==
    /\ taskCount.poll <= 1 /\ taskCount.price <= 1 /\ taskCount.refresh <= 1
    /\ (Quiet /\ running)
         => /\ taskCount.poll = 1 /\ taskCount.refresh = 1
            /\ (taskCount.price = 1) # (tickerConfigured /\ tickerConnected)
    /\ (Quiet /\ ~running)
         => taskCount = [poll |-> 0, price |-> 0, refresh |-> 0]

\* C15: successive Start and Stop calls leave one running engine (one loop of
\* each kind) or one stopped engine, and a repeated Start or Stop is accepted
\* as a no-op rather than refused.
C15_IdempotentLifecycle ==
    /\ EngineIdempotent
    /\ callLog.api = "400" => callLog.refused # callLog.accepted

\* the engine has been started again after a stop, and start() and stop() have
\* both been called a second time in a row
C15_EngineWitness ==
    /\ callLog.engine = "stop"
    /\ running /\ Quiet

-----------------------------------------------------------------------------
(* Properties of stopping (Spec) *)

\* C17: an exit callback that is in flight for a triggered trade ends only by
\* returning to _trigger_exit (the order placed or refused), also when stop()
\* is called meanwhile; it is never dropped.
C17_InFlightExitCompletes ==
    [][ (plPc = "exec" /\ (plPc' # "exec" \/ plCur' # plCur))
          => \E placed \in BOOLEAN : ExitCallbackReturn(placed) ]_vars

\* stop() has returned and start() has not been called since
Stopped == ~running /\ startPc = "idle" /\ stopPc = "idle"

TrackedTokens ==
    { positions[k][1].instrument_token : k \in { x \in Keys : positions[x] # None } }

\* C18: a token the engine subscribed for a position stays subscribed on the
\* ticker only as long as that position is tracked, and no token stays
\* subscribed once stop() has returned.
C18_SubscriptionsReleased ==
    /\ (running /\ startPc = "idle") => subscribed \subseteq TrackedTokens
    /\ Stopped => subscribed = {}

-----------------------------------------------------------------------------
(* Properties of the ticker client (SpecTicker) *)

\* the socket opens in this step
Reopens == ~tickerClient.is_connected /\ tickerClient'.is_connected

\* what was streamed when the socket closed is streamed again, in its mode
Restored ==
    \A t \in Tokens :
        tickerClient.at_close[t] # "none"
          => tickerClient'.streamed[t] = tickerClient.at_close[t]

\* C19: when the socket has opened again, every token that was subscribed
\* when it closed is subscribed again in the mode it had, before any tick is
\* handled.
C19_ResubscribedAfterReconnect ==
    [][ Reopens => Restored ]_vars

\* the same for the reconnects during which no other thread inserts into
\* subscribed_tokens
C19_ResubscribedWhenNotRaced ==
    [][ (Reopens /\ ~(\E token \in Tokens : TickerOpenRaced(token))) => Restored ]_vars

-----------------------------------------------------------------------------
(* Independence of the positions of different instruments *)

\* the key under which the instrument of a token is tracked
KeyOfToken(token) ==
    CHOOSE k \in Keys :
        \E i \in Instruments : i.instrument_token = token /\ k = << i.exchange, i.tradingsymbol >>

\* this step delivers a price for the token: a tick of it, or an ltp() answer
\* with an entry for its key
PriceArrivesFor(token) ==
    \/ \E tick \in Ticks : tick.instrument_token = token /\ OnTicks(tick)
    \/ \E ltp_data \in LtpAnswers :
          ltp_data[KeyOfToken(token)] # None /\ PriceLoopIterate(ltp_data)

\* every price the step delivers leaves the cache entries of the instruments it
\* is not for as they were
OthersKept ==
    /\ \A tick \in Ticks :
          OnTicks(tick)
            => \A t \in Tokens \ {tick.instrument_token} : prices'[t] = prices[t]
    /\ \A ltp_data \in LtpAnswers :
          PriceLoopIterate(ltp_data)
            => \A t \in Tokens :
                 ltp_data[KeyOfToken(t)] = None => prices'[t] = prices[t]

\* the price cache after the step, without the entries of the other instruments
OwnCache(tid) ==
    [t \in Tokens |->
        IF t = trades[tid].position.instrument_token THEN prices'[t] ELSE None]

\* the trade as one evaluation leaves it that sees its own instrument's price only
EvaluatedAlone(tid) ==
    LET ev == evaluate_trade(trades[tid], OwnCache(tid), Instants[clock])
    IN  IF ev.result = None THEN ev.trade
        ELSE trigger_exit(ev.trade, ev.result[1], Instants[clock])

\* C20: a price for one instrument changes neither the cached price of another
\* instrument nor the current price, the watermarks or the triggered state of a
\* trade of another instrument: a cache entry changes only when a price for its
\* own token arrives, a price that arrives changes no other entry, and a trade that changes becomes what an evaluation with
\* its own instrument's price alone makes of it.
C20_PositionsIndependent ==
    [][ /\ \A t \in Tokens : prices'[t] # prices[t] => PriceArrivesFor(t)
        /\ OthersKept
        /\ \A tid \in 1..Len(trades) :
              (tid \in Live /\ tid \in Live' /\ trades'[tid] # trades[tid])
                => trades'[tid] = EvaluatedAlone(tid) ]_vars

\* one trade has triggered on its take-profit while a trade of the other
\* instrument, evaluated at its own unchanged price inside its band, tracks on
C20_Witness ==
    /\ plPc = "sleep"
    /\ \E a, b \in 1..Len(trades) :
          /\ a \in Live /\ b \in Live
          /\ trades[a].position.instrument_token # trades[b].position.instrument_token
          /\ trades[a].triggered /\ trades[a].trigger_type = Some("TP")
          /\ trades[a].triggered_at = Some(Instants[clock])
          /\ ~trades[b].triggered
          /\ prices[trades[b].position.instrument_token] = Some(trades[b].current_price)
          /\ trades[b].sl_price # None
          /\ trades[b].current_price > trades[b].sl_price[1]

-----------------------------------------------------------------------------
(* Rule selection (SpecMatch) *)

\* the enabled rows of the table whose rule matches the position
Candidates(pos) ==
    { r \in ruleTable :
        /\ r.is_active
        /\ rule_matches(db_rule_to_exit_rule(r), pos.trading_symbol, pos.exchange,
                        position_type(pos)) }

\* C21: the rule of a trade created for a newly detected position is the rule
\* of an enabled row that matches the position and whose priority value is the
\* lowest among the enabled rows that match; a position that an enabled row
\* matches gets a trade.
C21_LowestPriorityEnabledRule ==
    [][ /\ \A tid \in (Len(trades) + 1)..Len(trades') :
              tid \in Live'
                => \E r \in Candidates(trades'[tid].position) :
                      /\ trades'[tid].rule = db_rule_to_exit_rule(r)
                      /\ \A q \in Candidates(trades'[tid].position) :
                            r.priority <= q.priority
        /\ \A k \in Keys :
              (positions[k] = None /\ positions'[k] # None
                 /\ Candidates(positions'[k][1]) # {})
                => k \in ActiveKeys(activeTrades') ]_vars

\* a tracked position that enabled rows of different priority match, and a
\* disabled row of a lower priority value than any of them
C21_Witness ==
    \E n \in 1..Len(activeTrades) :
        LET pos == trades[activeTrades[n].tid].position
        IN  /\ Cardinality(Candidates(pos)) >= 2
            /\ \E r, q \in Candidates(pos) : r.priority < q.priority
            /\ \E d \in ruleTable :
                  /\ ~d.is_active
                  /\ \A q \in Candidates(pos) : d.priority < q.priority
                  /\ rule_matches(db_rule_to_exit_rule(d), pos.trading_symbol,
                                  pos.exchange, position_type(pos))

-----------------------------------------------------------------------------
(* Symbol patterns (SpecPattern) *)

\* the pattern holds "*" or "?"
IsWildcard(pattern) == \E i \in 1..Len(pattern) : pattern[i] \in {"*", "?"}

\* the whole symbol from position j matches the pattern from position i, "*"
\* standing for any sequence of characters and "?" for one character, without
\* regard to case
RECURSIVE GlobMatch(_, _, _, _)
GlobMatch(pattern, i, symbol, j) ==
    IF i > Len(pattern) THEN j > Len(symbol)
    ELSE IF pattern[i] = "*"
      THEN GlobMatch(pattern, i + 1, symbol, j)
           \/ (j <= Len(symbol) /\ GlobMatch(pattern, i, symbol, j + 1))
    ELSE j <= Len(symbol)
         /\ (pattern[i] = "?" \/ Lower(pattern[i]) = Lower(symbol[j]))
         /\ GlobMatch(pattern, i + 1, symbol, j + 1)

\* the symbol is the pattern, without regard to case
SameLiteral(pattern, symbol) ==
    /\ Len(pattern) = Len(symbol)
    /\ \A i \in 1..Len(pattern) : Lower(pattern[i]) = Lower(symbol[i])

\* what the pattern semantics give for the stored pattern and the symbol
Expected(pattern, symbol) ==
    IF IsWildcard(pattern) THEN GlobMatch(pattern, 1, symbol, 1)
    ELSE SameLiteral(pattern, symbol)

\* C22: the engine finds the rule for a position exactly when the rule's
\* pattern matches the symbol: a pattern with "*" or "?" as a whole-symbol
\* match with "*" for any sequence and "?" for one character, any other
\* pattern as the identical literal, without regard to case.
C22_PatternSemantics ==
    (matchLog.result # "none" /\ matchLog.pattern # None)
      => (matchLog.result = "match") = Expected(matchLog.pattern[1], matchLog.symbol)

\* the same for the patterns made of letters and "*" only
C22_LettersAndStar ==
    (/\ matchLog.result # "none" /\ matchLog.pattern # None
     /\ \A i \in 1..Len(matchLog.pattern[1]) : matchLog.pattern[1][i] \notin {"?", "."})
      => (matchLog.result = "match") = Expected(matchLog.pattern[1], matchLog.symbol)

-----------------------------------------------------------------------------
(* Invalid rules on load (SpecReload) *)

\* the enabled rules of the list that convert, converted, in their order
RECURSIVE ValidRules(_, _)
ValidRules(rule_dicts, n) ==
    IF n > Len(rule_dicts) THEN << >>
    ELSE IF rule_dicts[n].is_active /\ ~conversion_raises(rule_dicts[n])
      THEN << db_rule_to_exit_rule(rule_dicts[n]) >> \o ValidRules(rule_dicts, n + 1)
    ELSE ValidRules(rule_dicts, n + 1)

\* C23: a load skips the rule with an unknown condition_type and loads every
\* other valid enabled rule of the rule set: after it the engine's rules are
\* the valid enabled rules of the set.
C23_InvalidRuleSkipped ==
    [][ \A data \in ReloadConfigs : ReloadRules(data) => rules' = ValidRules(data, 1) ]_vars

\* the same for the rule sets all of whose enabled rules convert
C23_ValidSetsLoaded ==
    [][ \A data \in ReloadConfigs :
          (ReloadRules(data) /\ ~load_raises(data)) => rules' = ValidRules(data, 1) ]_vars

-----------------------------------------------------------------------------
(* Exits (SpecExit) *)

TriggerEvents == {"TP_TRIGGERED", "SL_TRIGGERED", "TIME_TRIGGER"}
OrderEvents == {"ORDER_PLACED", "ORDER_REJECTED"}

\* C24: an exit executed by execute_exit publishes exactly one trigger event
\* and, after it, exactly one of ORDER_PLACED and ORDER_REJECTED, also when the
\* broker rejects the order.
C24_TriggerThenOrderEvent ==
    (exitLog.path = "service" /\ exitLog.attempts > 0)
      => /\ Len(exitLog.events) = 2
         /\ exitLog.events[1] \in TriggerEvents
         /\ exitLog.events[2] \in OrderEvents

\* what does hold of the events of an exit by execute_exit: one order event
\* for the one call of the broker, ORDER_PLACED exactly when it was accepted,
\* and a trigger event only after ORDER_PLACED
C24_OrderEventThenTrigger ==
    (exitLog.path = "service" /\ exitLog.attempts > 0)
      => /\ exitLog.events[1] \in OrderEvents
         /\ (exitLog.events[1] = "ORDER_PLACED") = (exitLog.answer = "ok")
         /\ Len(exitLog.events) = (IF exitLog.answer = "ok" THEN 2 ELSE 1)
         /\ Len(exitLog.events) = 2 => exitLog.events[2] \in TriggerEvents

\* C25: an exit whose order placement fails transiently is retried, and the
\* broker's place_order is never called more than 4 times for one trigger.
C25_TransientFailureRetried ==
    /\ exitLog.answer = "transient" => exitLog.attempts >= 2
    /\ exitLog.attempts <= 4

\* the second half alone: at most 4 calls for one trigger
C25_AtMostFourAttempts == exitLog.attempts <= 4

\* C28: a completed exit order of the system that the monitor has processed
\* was skipped as system-generated and was not passed to on_order_complete.
C28_ExitOrdersAreSystemOrders ==
    \A n \in orderBook.completed_order_ids :
        orderBook.book[n].by \in {"engine", "service"}
          => /\ n \in orderBook.system
             /\ \A d \in 1..Len(orderBook.delivered) : orderBook.delivered[d] # n

\* the same for the TP and SL orders of on_exit_trigger
C28_EngineTpSlOrdersAreSystemOrders ==
    \A n \in orderBook.completed_order_ids :
        (orderBook.book[n].by = "engine" /\ orderBook.book[n].tag[1][1] \in {"TP", "SL"})
          => /\ n \in orderBook.system
             /\ \A d \in 1..Len(orderBook.delivered) : orderBook.delivered[d] # n

-----------------------------------------------------------------------------
(* Failing polls (SpecPollFail) *)

\* this step is a turn of _poll_positions
PollAttempted ==
    \/ \E response \in Responses : PollSucceeds(response)
    \/ \E response \in Responses, bad \in 0..Len(InstrumentSeq),
          kind \in FetchFailures \cup {"parse"} : PollFails(response, bad, kind)

\* C26: once three broker-auth failures in a row have occurred (the stated
\* default limit; the monitor holds no such setting), BROKER_DISCONNECTED has
\* been published and no further poll is attempted (nothing in the monitor
\* reports a fresh token).
C26_DisconnectedAfterAuthFailures ==
    [][ pollHealth.auth >= 3
          => /\ \E e \in 1..Len(pollHealth.published) :
                  pollHealth.published[e] = "BROKER_DISCONNECTED"
             /\ ~PollAttempted ]_vars

-----------------------------------------------------------------------------
(* The broker client factory (SpecFactory) *)

\* the account is there, active, and its token is neither empty nor expired
AccountUsable(account, now) ==
    /\ account # None
    /\ account[1].is_active
    /\ account[1].access_token # 0
    /\ account[1].token_expires_at # None => now < account[1].token_expires_at[1]

\* this step is a call of get_client
GetsClient == \E decrypts \in BOOLEAN : GetClient(decrypts)

\* C29: get_client returns a client only when the user's broker account is
\* there and active and its access token is neither empty nor expired, also
\* when a client for the user is in the cache.
C29_ClientOnlyForUsableAccount ==
    [][ (GetsClient /\ issued'.client # None) => AccountUsable(brokerAccount, clock) ]_vars

\* the same for the clients get_client builds, but for the account's being
\* active, which get_client never reads
C29_BuiltOnlyWithValidToken ==
    [][ (GetsClient /\ issued'.client # None /\ ~issued'.cached)
          => /\ brokerAccount # None
             /\ is_token_valid(brokerAccount[1], clock) ]_vars

\* C30: a client that get_client returns is built from the credentials the
\* account holds now, never from those it held before they were updated,
\* refreshed or obtained anew.
C30_NoClientFromPreviousCredentials ==
    [][ (GetsClient /\ issued'.client # None /\ brokerAccount # None)
          => issued'.client[1] = [api_key |-> brokerAccount[1].api_key,
                                  access_token |-> brokerAccount[1].access_token] ]_vars

\* invalidate_client, where it is called, purges the client and the snapshot,
\* and the client returned after it is built from the account as it is
C30_InvalidatePurges ==
    [][ /\ InvalidateClient => factory' = [clients |-> None, accounts |-> None]
        /\ (GetsClient /\ factory.clients = None /\ issued'.client # None)
              => issued'.client[1] = [api_key |-> brokerAccount[1].api_key,
                                      access_token |-> brokerAccount[1].access_token] ]_vars


-----------------------------------------------------------------------------
(* The event bus (SpecBus) *)

\* the handlers registered for the event: for every event, for its type, for
\* its type and user
Matching(event) ==
    bus.global_handlers
      \o bus.handlers[event.type]
      \o (IF event.user_id = None THEN << >>
          ELSE bus.user_handlers[event.user_id[1]][event.type])

\* C31: a publish calls every handler registered for the event, whatever
\* errors (Exceptions) the handlers before it raised, and raises nothing to
\* the publisher; the handlers here either return or raise an Exception.
C31_PublishReachesEveryHandler ==
    [][ \A event \in Events :
          (/\ Publish(event)
           /\ \A i \in 1..Len(Matching(event)) : Matching(event)[i].does # "exit")
            => /\ bus'.last[1].event = event
               /\ bus'.last[1].invoked = Matching(event)
               /\ bus'.last[1].raised = "none" ]_vars

\* a handler that raised is followed by a handler that was called all the same
C31_Witness ==
    /\ bus.last # None
    /\ \E i \in 1..Len(bus.last[1].invoked) :
          /\ bus.last[1].invoked[i].does = "raise"
          /\ i < Len(bus.last[1].invoked)
    /\ bus.last[1].raised = "none"


-----------------------------------------------------------------------------
(* A tracked position that changes (SpecDiff) *)

\* the trade the price loop evaluates first in this step: the first one of
\* list(_active_trades.values()) that has not triggered
FirstEvaluated ==
    LET live == { n \in 1..Len(activeTrades) : ~trades[activeTrades[n].tid].triggered }
    IN  IF live = {} THEN None
        ELSE Some(activeTrades[CHOOSE n \in live : \A o \in live : n <= o])

\* C32: an evaluation of a trade whose token has no entry in the price cache
\* uses the last_price of the position as the monitor holds it after its
\* most recent poll.
C32_FallbackIsLatestLastPrice ==
    [][ \A ltp_data \in LtpAnswers :
          (PriceLoopIterate(ltp_data) /\ FirstEvaluated # None)
            => LET e == FirstEvaluated[1]
                   token == trades[e.tid].position.instrument_token
               IN  (prices'[token] = None /\ positions[e.key] # None)
                     => trades'[e.tid].current_price = positions[e.key][1].last_price
      ]_vars

\* with an empty cache the evaluation uses the price the trade holds: the
\* last_price of the row that created it, until a price arrives
C32_FallbackIsTradePrice ==
    [][ \A ltp_data \in LtpAnswers :
          (PriceLoopIterate(ltp_data) /\ FirstEvaluated # None)
            => LET e == FirstEvaluated[1]
                   token == trades[e.tid].position.instrument_token
               IN  prices'[token] = None
                     => trades'[e.tid].current_price = trades[e.tid].current_price
      ]_vars

\* C35: an exit order is placed for the side and the absolute quantity of
\* the position as the monitor's last poll found it.
C35_ExitForCurrentQuantity ==
    [][ (ExitCallbackReturn(TRUE) /\ Len(orders') = Len(orders) + 1)
          => LET o == orders'[Len(orders')]
                 key == symbol_key(o.position)
             IN  positions[key] # None
                   => /\ o.order.quantity = abs_quantity(positions[key][1])
                      /\ o.order.transaction_type =
                           IF positions[key][1].quantity > 0 THEN "SELL" ELSE "BUY"
      ]_vars

\* the exit order is placed for the side and quantity of the row that
\* created the trade
C35_ExitForFirstSighting ==
    \A n \in 1..Len(orders) :
        /\ orders[n].order.quantity = abs_quantity(orders[n].position)
        /\ orders[n].order.transaction_type =
             IF orders[n].position.quantity > 0 THEN "SELL" ELSE "BUY"
        /\ orders[n].position = trades[orders[n].tid].position
             \/ trades[orders[n].tid].position = None


-----------------------------------------------------------------------------
(* Trades whose position has closed (SpecPass) *)

\* the ActiveTrade is the one _active_trades holds for its key: no poll has
\* reported its position closed
Tracked(tid) ==
    \E n \in 1..Len(activeTrades) : activeTrades[n].tid = tid

\* C33: _trigger_exit is called, and so an exit order placed, only for a
\* trade whose position the monitor has not seen closed, the passes of the
\* price loop that are suspended at an on_trigger call included.
C33_NoExitAfterClose ==
    [][ \A tid \in 1..Len(execCount) :
          execCount'[tid] > execCount[tid] => Tracked(tid) ]_vars

\* a pass that is not suspended evaluates tracked trades only: the trades
\* the first _trigger_exit of a pass is called for are tracked
C33_NoExitAfterCloseInOnePass ==
    [][ \A ltp_data \in PassLtpAnswers : PriceLoopIterate(ltp_data) =>
          \A tid \in 1..Len(execCount) :
              execCount'[tid] > execCount[tid] => Tracked(tid) ]_vars


-----------------------------------------------------------------------------
(* Stop and restart with a position open (Spec) *)

\* C34: the entry of _active_trades of a trade that has triggered is not
\* replaced by a new, armed trade: it stays until a poll reports the position
\* closed and the entry is deleted, a stop() and start() in between included.
C34_TriggeredTradeNotRearmed ==
    [][ \A n \in 1..Len(activeTrades) :
          (/\ trades[activeTrades[n].tid].triggered
           /\ activeTrades[n].key \in ActiveKeys(activeTrades'))
            => TradeOf(activeTrades', activeTrades[n].key) = activeTrades[n].tid ]_vars

\* as long as the engine is not restarted the entry of a triggered trade is
\* not replaced: the monitor that start() builds is the one that re-arms
C34_NotRearmedByTheSameMonitor ==
    [][ \A n \in 1..Len(activeTrades) :
          (/\ trades[activeTrades[n].tid].triggered
           /\ positions[activeTrades[n].key] # None
           /\ activeTrades[n].key \in ActiveKeys(activeTrades'))
            => TradeOf(activeTrades', activeTrades[n].key) = activeTrades[n].tid ]_vars


-----------------------------------------------------------------------------
(* start() and stop() overlapping (SpecOverlap) *)

\* a _run_loop task of a PositionMonitor is alive
PollLoopActive == taskCount.poll > 0

\* C36: whenever neither start() nor stop() is in progress, is_running() is
\* true exactly when a position-poll loop is alive.
C36_RunningIffPolling ==
    (startPc = "idle" /\ stopPc = "idle") => (running <=> PollLoopActive)

\* the same for the poll loop of the monitor the engine holds
C36_RunningIffMonitorRunning ==
    (startPc = "idle" /\ stopPc = "idle") => (running <=> monitorRunning)


-----------------------------------------------------------------------------
(* The price cache over the life of several trades (SpecDiff) *)

\* the trade is as _on_new_position made it: no price has been applied to it
\* that differs from the last_price of its row
Fresh(tid) == trades[tid] = NewTrade(trades[tid].position, trades[tid].rule)

\* C37: an evaluation of a trade no price has reached since it was created,
\* in an iteration whose ltp() brings no price for it, does not take a price
\* from the cache (one that was put there before the trade existed): it is
\* evaluated at the last_price of its own row.
C37_FirstEvaluationNotFromOldCache ==
    [][ \A ltp_data \in LtpAnswers :
          (PriceLoopIterate(ltp_data) /\ FirstEvaluated # None)
            => LET e == FirstEvaluated[1] IN
               (Fresh(e.tid) /\ ltp_data[e.key] = None)
                 => trades'[e.tid].current_price = trades[e.tid].position.last_price
      ]_vars

\* when the cache holds nothing for the token the fresh trade is evaluated at
\* the last_price of its row
C37_FirstEvaluationWithEmptyCache ==
    [][ \A ltp_data \in LtpAnswers :
          (PriceLoopIterate(ltp_data) /\ FirstEvaluated # None)
            => LET e == FirstEvaluated[1] IN
               (/\ Fresh(e.tid) /\ ltp_data[e.key] = None
                /\ prices[trades[e.tid].position.instrument_token] = None)
                 => trades'[e.tid].current_price = trades[e.tid].position.last_price
      ]_vars


-----------------------------------------------------------------------------
(* get_client against invalidate_client (SpecRace) *)

\* C38: when invalidate_client has run while a get_client was suspended, the
\* get_client does not leave in the cache a client built from the account as
\* its query read it before the invalidation, unless the account was the same
\* when the cache was invalidated or is the same now.
C38_NoClientFromBeforeInvalidation ==
    [][ \A decrypts \in BOOLEAN :
          (/\ GetClientFinish(decrypts)
           /\ inflight[1].invalidated # None
           /\ factory'.clients # None)
            => \/ factory'.accounts = inflight[1].invalidated[1]
               \/ factory'.accounts = brokerAccount ]_vars

\* a get_client that was not overtaken by invalidate_client caches the
\* account its query read, and a call that finds the cache invalidated reads
\* the account anew
C38_CachesWhatItRead ==
    [][ \A decrypts \in BOOLEAN :
          (GetClientFinish(decrypts) /\ factory'.clients # factory.clients)
            => /\ factory'.accounts = inflight[1].account
               /\ factory'.clients =
                    Some([api_key |-> inflight[1].account[1].api_key,
                          access_token |-> inflight[1].account[1].access_token])
      ]_vars


-----------------------------------------------------------------------------
(* The session manager (SpecSessions) *)

\* C39: an end_session removes no session but the one that was registered
\* when it was called.
C39_EndsOnlyItsOwnSession ==
    sessionMgr.ended # None =>
        \/ sessionMgr.ended[1].removed = None
        \/ sessionMgr.ended[1].removed = Some(sessionMgr.ended[1].target)

\* an end_session that is not suspended removes the session it found
C39_UnsuspendedEndRemovesItsOwn ==
    [][ \A user_id \in SessionUsers :
          (EndSessionBegin(user_id) /\ sessionMgr'.ending[user_id] = None)
            => /\ sessionMgr'.ended = Some([user_id |-> user_id,
                                            target |-> sessionMgr.sessions[user_id][1],
                                            removed |-> sessionMgr.sessions[user_id]])
               /\ sessionMgr'.sessions =
                    [sessionMgr.sessions EXCEPT ![user_id] = None] ]_vars

-----------------------------------------------------------------------------
(* The rate limiter (SpecLimiter) *)

\* C40: a request that takes the user's count in the window above the limit
\* is answered with 429, and a request counted at or below the limit passes.
C40_RejectsAboveLimit ==
    (limiter.last # None /\ limiter.last[1].count # None) =>
        IF limiter.last[1].count[1] > LimiterRequests
          THEN limiter.last[1].response = "429"
        ELSE limiter.last[1].response = "pass"

\* the try block raises HTTPException exactly for a count above the limit
C40_RaisesAboveLimit ==
    (limiter.last # None /\ limiter.last[1].count # None) =>
        (limiter.last[1].raised = "HTTPException"
            <=> limiter.last[1].count[1] > LimiterRequests)

\* every call of the limiter lets the request pass
C40_EveryRequestPasses ==
    limiter.last # None => limiter.last[1].response = "pass"

=============================================================================
